---- MODULE Spec2Model ----
(***************************************************************************)
(* Network-flow solvers of graph-algorithms: the residual graph builder,   *)
(* the four augmenting-path searches, ford_fulkerson, feasible_flow and    *)
(* minimum_cost_flow (with the bellman_ford oracle it calls).              *)
(*                                                                         *)
(* A Python dict is a function; where the code depends on the insertion    *)
(* order of the keys (list(d.keys())) the key list is kept next to it.     *)
(* None and the empty list/dict are both falsy in Python and are both      *)
(* written <<>> here.                                                      *)
(***************************************************************************)
EXTENDS Integers, Sequences, FiniteSets, TLC

VARIABLES
    nodes,          \* caller's node list (feasible_flow, minimum_cost_flow)
    edges,          \* caller's edge list
    capacities,     \* caller's capacity map
    costs,          \* caller's cost map (minimum_cost_flow)
    supply,         \* caller's supply map
    source,         \* caller's source (ford_fulkerson)
    sink,           \* caller's sink   (ford_fulkerson)
    search_method,  \* "bfs" | "dfs" | "max" | "min"
    lower_bounds,   \* caller's lower bound map (minimum_flow)
    upper_bounds,   \* caller's upper bound map (minimum_flow)
    init_flow,      \* the flow argument handed to the solver (None = <<>>)
    ff,             \* frame of the running ford_fulkerson call
    mcf,            \* frame of the running minimum_cost_flow call
    mf,             \* frame of the running minimum_flow call
    pc,             \* position of the program
    run,            \* 1 for the first solve, 2 for the repeated one
    previous,       \* result of the first solve, kept by the caller
    result          \* value returned by the last call that returned

vars == <<nodes, edges, capacities, costs, supply, source, sink, search_method,
          lower_bounds, upper_bounds, init_flow, ff, mcf, mf, pc, run, previous, result>>

(***************************************************************************)
(* Bounds of the model.                                                    *)
(***************************************************************************)
MaxEdges == 3
MaxCap == 1
MaxSortedEdges == 5
MaxSupply == 2
MaxCost == 1

\* float("inf")
Inf == 1000000

\* float arithmetic: inf - y = inf
minus(x, y) == IF x = Inf THEN Inf ELSE x - y

None == <<>>

Methods == {"bfs", "dfs", "max", "min"}

(***************************************************************************)
(* Small helpers on sequences and maps.                                    *)
(***************************************************************************)
ToSet(q) == {q[i] : i \in DOMAIN q}

Contains(q, x) == \E i \in DOMAIN q : q[i] = x

Last(q) == q[Len(q)]

RECURSIVE SumSeq(_)
SumSeq(q) == IF q = <<>> THEN 0 ELSE Head(q) + SumSeq(Tail(q))

RECURSIVE SumOver(_, _)
SumOver(S, f) ==
    IF S = {} THEN 0
    ELSE LET x == CHOOSE y \in S : TRUE IN f[x] + SumOver(S \ {x}, f)

\* d[k] = v on an insertion-ordered dict d = [keys, val]
DictSet(d, k, v) ==
    [keys |-> IF k \in DOMAIN d.val THEN d.keys ELSE Append(d.keys, k),
     val  |-> (k :> v) @@ d.val]

EmptyDict == [keys |-> <<>>, val |-> <<>>]

(***************************************************************************)
(* Loops.  A loop of the code is given by its state (a record of the       *)
(* variables it updates), the test that ends it and the body that runs one *)
(* iteration; run_loop runs the body until the test holds, in blocks of    *)
(* 2^k iterations so that a long loop is not a deep evaluation.            *)
(***************************************************************************)
RECURSIVE run_block(_, _, _, _)
run_block(body(_), ended(_), st, k) ==
    IF ended(st) THEN st
    ELSE IF k = 0 THEN body(st)
    ELSE run_block(body, ended, run_block(body, ended, st, k - 1), k - 1)

RECURSIVE run_blocks(_, _, _, _)
run_blocks(body(_), ended(_), st, k) ==
    IF ended(st) THEN st
    ELSE run_blocks(body, ended, run_block(body, ended, st, k), k + 1)

run_loop(body(_), ended(_), st) == run_blocks(body, ended, st, 0)

(***************************************************************************)
(* util.py                                                                 *)
(***************************************************************************)
get_path_edges(path_nodes) ==
    [index \in 1..(Len(path_nodes) - 1) |-> <<path_nodes[index], path_nodes[index + 1]>>]

\* lines 93-95: one iteration of "for edge in path_edges"
path_capacity_body(caps, path_edges, st) ==
    [i |-> st.i + 1,
     path_capacity |-> IF caps[path_edges[st.i]] < st.path_capacity
                       THEN caps[path_edges[st.i]] ELSE st.path_capacity]

calculate_path_capacity(caps, path_edges) ==
    run_loop(LAMBDA st : path_capacity_body(caps, path_edges, st),
             LAMBDA st : st.i > Len(path_edges),
             [i |-> 1, path_capacity |-> Inf]).path_capacity

calculate_flow_value(flow, node) ==
    SumOver({e \in DOMAIN flow : e[1] = node}, flow)
    - SumOver({e \in DOMAIN flow : e[2] = node}, flow)

(***************************************************************************)
(* maximum_flow.py: residual graph                                         *)
(***************************************************************************)
\* lines 30-32: one iteration of "for (u, v) in edges"
residual_body(es, caps, flow, st) ==
    LET u == es[st.i][1]
        v == es[st.i][2]
        d1 == DictSet(st.residual_capacities, <<u, v>>,
                      minus(caps[<<u, v>>], flow[<<u, v>>]))
    IN [i |-> st.i + 1,
        residual_capacities |-> DictSet(d1, <<v, u>>, flow[<<u, v>>])]

\* returns the dict; .keys is residual_edges, .val is residual_capacities
construct_residual_graph(es, caps, flow) ==
    run_loop(LAMBDA st : residual_body(es, caps, flow, st),
             LAMBDA st : st.i > Len(es),
             [i |-> 1, residual_capacities |-> EmptyDict]).residual_capacities

(***************************************************************************)
(* maximum_flow.py: the four searches                                      *)
(***************************************************************************)
\* [v for (u, v) in edges if u == current_node and rc[(u, v)] > 0 and v not in excluded]
new_nodes_of(es, rc, current_node, excluded) ==
    LET sel == SelectSeq(es, LAMBDA e : /\ e[1] = current_node
                                        /\ rc[e] > 0
                                        /\ ~Contains(excluded, e[2]))
    IN [i \in DOMAIN sel |-> sel[i][2]]

\* lines 62-75: one iteration of the while loop; falling out of the loop returns None
bfs_body(es, rc, snk, st) ==
    IF st.open_list_paths = <<>>
    THEN [st EXCEPT !.returned = TRUE, !.value = None]
    ELSE LET current_path == Head(st.open_list_paths)
             current_node == Last(current_path)
         IN IF current_node = snk
            THEN [st EXCEPT !.returned = TRUE, !.value = current_path]
            ELSE LET nn == new_nodes_of(es, rc, current_node, st.closed_list_nodes)
                     new_paths == [i \in DOMAIN nn |-> Append(current_path, nn[i])]
                 IN [st EXCEPT !.open_list_paths = Tail(@) \o new_paths,
                               !.closed_list_nodes = @ \o nn]

find_augmenting_path_bfs(es, rc, src, snk) ==
    run_loop(LAMBDA st : bfs_body(es, rc, snk, st),
             LAMBDA st : st.returned,
             [open_list_paths |-> <<<<src>>>>, closed_list_nodes |-> <<src>>,
              returned |-> FALSE, value |-> None]).value

\* lines 103-117: one iteration of the while loop; falling out of the loop returns None
dfs_body(es, rc, snk, st) ==
    IF st.open_list_nodes = <<>>
    THEN [st EXCEPT !.returned = TRUE, !.value = None]
    ELSE LET current_node == Last(st.open_list_nodes)
         IN IF current_node = snk
            THEN [st EXCEPT !.returned = TRUE, !.value = st.open_list_nodes]
            ELSE LET new_nodes == new_nodes_of(es, rc, current_node,
                                               st.open_list_nodes \o st.closed_list_nodes)
                 IN IF new_nodes # <<>>
                    THEN [st EXCEPT !.open_list_nodes = Append(@, new_nodes[1])]
                    ELSE [st EXCEPT !.open_list_nodes = SubSeq(@, 1, Len(@) - 1),
                                    !.closed_list_nodes = Append(@, current_node)]

find_augmenting_path_dfs(es, rc, src, snk) ==
    run_loop(LAMBDA st : dfs_body(es, rc, snk, st),
             LAMBDA st : st.returned,
             [open_list_nodes |-> <<src>>, closed_list_nodes |-> <<>>,
              returned |-> FALSE, value |-> None]).value

\* lines 146-158 and 197-209: one iteration of the enumeration loop that the max
\* and min searches share (as duplicated code)
all_paths_body(es, rc, snk, st) ==
    LET current_path == Head(st.open_list_paths)
        current_node == Last(current_path)
    IN IF current_node = snk
       THEN [open_list_paths |-> Tail(st.open_list_paths),
             all_paths |-> Append(st.all_paths, current_path)]
       ELSE LET nn == new_nodes_of(es, rc, current_node, current_path)
                new_paths == [i \in DOMAIN nn |-> Append(current_path, nn[i])]
            IN [open_list_paths |-> Tail(st.open_list_paths) \o new_paths,
                all_paths |-> st.all_paths]

all_paths_loop(es, rc, src, snk) ==
    run_loop(LAMBDA st : all_paths_body(es, rc, snk, st),
             LAMBDA st : st.open_list_paths = <<>>,
             [open_list_paths |-> <<<<src>>>>, all_paths |-> <<>>]).all_paths

\* mutant: a later path of equal capacity replaces the one found first
max_body_last_wins(rc, all_paths, st) ==
    LET path == all_paths[st.i]
        path_capacity == calculate_path_capacity(rc, get_path_edges(path))
    IN IF path_capacity >= st.max_path_capacity
       THEN [i |-> st.i + 1, max_path_capacity |-> path_capacity, max_path |-> path]
       ELSE [st EXCEPT !.i = @ + 1]

\* lines 162-166: one iteration of "for path in all_paths"
max_body(rc, all_paths, st) ==
    LET path == all_paths[st.i]
        path_capacity == calculate_path_capacity(rc, get_path_edges(path))
    IN IF path_capacity > st.max_path_capacity
       THEN [i |-> st.i + 1, max_path_capacity |-> path_capacity, max_path |-> path]
       ELSE [st EXCEPT !.i = @ + 1]

find_augmenting_path_max(es, rc, src, snk) ==
    LET all_paths == all_paths_loop(es, rc, src, snk)
    IN run_loop(LAMBDA st : max_body(rc, all_paths, st),
                LAMBDA st : st.i > Len(all_paths),
                [i |-> 1, max_path_capacity |-> 0, max_path |-> None]).max_path

\* lines 213-217: one iteration of "for path in all_paths"
min_body(rc, all_paths, st) ==
    LET path == all_paths[st.i]
        path_capacity == calculate_path_capacity(rc, get_path_edges(path))
    IN IF path_capacity < st.min_path_capacity
       THEN [i |-> st.i + 1, min_path_capacity |-> path_capacity, min_path |-> path]
       ELSE [st EXCEPT !.i = @ + 1]

find_augmenting_path_min(es, rc, src, snk) ==
    LET all_paths == all_paths_loop(es, rc, src, snk)
    IN run_loop(LAMBDA st : min_body(rc, all_paths, st),
                LAMBDA st : st.i > Len(all_paths),
                [i |-> 1, min_path_capacity |-> Inf, min_path |-> None]).min_path

\* mutant: the breadth-first search is replaced by the depth-first search
search_depth_first(method, es, rc, src, snk) ==
    CASE method \in {"bfs", "dfs"} -> find_augmenting_path_dfs(es, rc, src, snk)
      [] method = "max" -> find_augmenting_path_max(es, rc, src, snk)
      [] method = "min" -> find_augmenting_path_min(es, rc, src, snk)

\* search_method(residual_edges, residual_capacities, source, sink)
search(method, es, rc, src, snk) ==
    CASE method = "bfs" -> find_augmenting_path_bfs(es, rc, src, snk)
      [] method = "dfs" -> find_augmenting_path_dfs(es, rc, src, snk)
      [] method = "max" -> find_augmenting_path_max(es, rc, src, snk)
      [] method = "min" -> find_augmenting_path_min(es, rc, src, snk)

(***************************************************************************)
(* maximum_flow.py: ford_fulkerson                                         *)
(***************************************************************************)
\* mutant: the supplied flow is ignored and every solve starts from the zero flow
initial_flow_ignored(es, flow) == [e \in ToSet(es) |-> 0]

\* lines 256-260: "if not flow" replaces None and the empty dict by the zero flow
initial_flow(es, flow) ==
    IF flow = <<>> THEN [e \in ToSet(es) |-> 0] ELSE flow

\* lines 263-264 and 289-290
find_path(es, caps, src, snk, method, flow) ==
    LET g == construct_residual_graph(es, caps, flow)
    IN search(method, g.keys, g.val, src, snk)

\* lines 277-280: one iteration of "for (u, v) in edges"
augment_body(es, path_edges, c, st) ==
    LET u == es[st.i][1]
        v == es[st.i][2]
        f1 == IF Contains(path_edges, <<u, v>>)
              THEN [st.flow EXCEPT ![<<u, v>>] = @ + c] ELSE st.flow
    IN [i |-> st.i + 1,
        flow |-> IF Contains(path_edges, <<v, u>>)
                 THEN [f1 EXCEPT ![<<u, v>>] = @ - c] ELSE f1]

\* lines 272-280: the flow after augmenting along augmenting_path_nodes
augment(es, caps, flow, augmenting_path_nodes) ==
    LET g == construct_residual_graph(es, caps, flow)
        augmenting_path_edges == get_path_edges(augmenting_path_nodes)
        augmenting_path_capacity == calculate_path_capacity(g.val, augmenting_path_edges)
    IN run_loop(LAMBDA st : augment_body(es, augmenting_path_edges,
                                         augmenting_path_capacity, st),
                LAMBDA st : st.i > Len(es),
                [i |-> 1, flow |-> flow]).flow

\* lines 268-290: one iteration of the while loop
ff_body(es, caps, src, snk, method, st) ==
    LET f == augment(es, caps, st.flow, st.augmenting_path_nodes)
    IN [flow |-> f,
        counter |-> st.counter + 1,
        augmenting_path_nodes |-> find_path(es, caps, src, snk, method, f)]

\* the whole call, as a function: <<flow, flow_value, counter>>
ford_fulkerson(es, caps, src, snk, method, flow) ==
    LET f == initial_flow(es, flow)
        st == run_loop(LAMBDA s : ff_body(es, caps, src, snk, method, s),
                       LAMBDA s : s.augmenting_path_nodes = None,
                       [flow |-> f, counter |-> 0,
                        augmenting_path_nodes |-> find_path(es, caps, src, snk, method, f)])
    IN <<st.flow, calculate_flow_value(st.flow, src), st.counter>>

NoFrame == <<>>

\* lines 256-264: entry of ford_fulkerson
FFEnter(es, caps, src, snk, method, flow) ==
    LET f == initial_flow(es, flow)
    IN [edges |-> es, capacities |-> caps, source |-> src, sink |-> snk,
        flow |-> f, counter |-> 0,
        augmenting_path_nodes |-> find_path(es, caps, src, snk, method, f)]

\* lines 268-290: one iteration of the while loop
FFIterate ==
    /\ pc \in {"ff_loop", "feas_ff_loop", "min_ff_loop"}
    /\ ff.augmenting_path_nodes # None
    /\ LET f == augment(ff.edges, ff.capacities, ff.flow, ff.augmenting_path_nodes)
       IN ff' = [ff EXCEPT !.flow = f,
                           !.counter = @ + 1,
                           !.augmenting_path_nodes =
                               find_path(ff.edges, ff.capacities, ff.source, ff.sink,
                                         search_method, f)]
    /\ UNCHANGED <<nodes, edges, capacities, costs, supply, lower_bounds, upper_bounds,
                   source, sink, search_method, mf,
                   init_flow, mcf, pc, run, previous, result>>

(***************************************************************************)
(* Caller of ford_fulkerson: one solve, then a second solve that starts    *)
(* from the flow the first one returned.                                   *)
(***************************************************************************)
FFCall ==
    /\ pc = "call_ff"
    /\ ff' = FFEnter(edges, capacities, source, sink, search_method, init_flow)
    /\ pc' = "ff_loop"
    /\ UNCHANGED <<nodes, edges, capacities, costs, supply, lower_bounds, upper_bounds,
                   source, sink, search_method, mf,
                   init_flow, mcf, run, previous, result>>

\* line 293
FFReturn ==
    /\ pc = "ff_loop"
    /\ ff.augmenting_path_nodes = None
    /\ result' = <<ff.flow, calculate_flow_value(ff.flow, ff.source)>>
    /\ pc' = "done"
    /\ UNCHANGED <<nodes, edges, capacities, costs, supply, lower_bounds, upper_bounds,
                   source, sink, search_method, mf,
                   init_flow, ff, mcf, run, previous>>

FFAgain ==
    /\ pc = "done"
    /\ run = 1
    /\ previous' = result
    /\ init_flow' = result[1]
    /\ run' = 2
    /\ pc' = "call_ff"
    /\ UNCHANGED <<nodes, edges, capacities, costs, supply, lower_bounds, upper_bounds,
                   source, sink, search_method, mf,
                   ff, mcf, result>>

(***************************************************************************)
(* Inputs of the max-flow specification.                                   *)
(***************************************************************************)
DistinctSeqs(S, n) ==
    {q \in UNION {[1..k -> S] : k \in 0..n} :
        \A i, j \in DOMAIN q : i # j => q[i] # q[j]}

Pairs(N) == {<<u, v>> : u \in N, v \in N} \ {<<u, u>> : u \in N}

\* a capacity dict literal, as a list of <<u, v, capacity>> in insertion order
KeysOf(items) == [i \in DOMAIN items |-> <<items[i][1], items[i][2]>>]

DictOf(items) ==
    [e \in ToSet(KeysOf(items)) |->
        (CHOOSE i \in DOMAIN items : <<items[i][1], items[i][2]>> = e /\
            \A j \in DOMAIN items : <<items[j][1], items[j][2]>> = e => j <= i) \* last wins
    ]

ValuesOf(items) ==
    LET at == DictOf(items) IN [e \in DOMAIN at |-> items[at[e]][3]]

\* Week 4 LGT Question 1. Max flow = 4.
Week4LGT1 ==
    << <<"s", "c1", 1>>, <<"s", "c2", 1>>, <<"s", "c3", 1>>, <<"s", "c4", 1>>,
       <<"c1", "r1", 1>>, <<"c1", "r2", 1>>,
       <<"c2", "r2", 1>>, <<"c2", "r3", 1>>, <<"c2", "r4", 1>>,
       <<"c3", "r4", 1>>, <<"c3", "r5", 1>>,
       <<"c4", "r4", 1>>, <<"c4", "r5", 1>>, <<"c4", "r6", 1>>, <<"c4", "r7", 1>>,
       <<"r1", "p1", 1>>,
       <<"r2", "p1", 1>>,
       <<"r3", "p2", 1>>,
       <<"r4", "p2", 1>>,
       <<"r5", "p3", 1>>,
       <<"r6", "p3", 1>>,
       <<"r7", "p3", 1>>,
       <<"p1", "t", 1>>,
       <<"p2", "t", 2>>,
       <<"p3", "t", 2>> >>

\* the initial flow of Week 4 LGT Question 1
Week4LGT1Flow ==
    << <<"s", "c1", 0>>, <<"s", "c2", 1>>, <<"s", "c3", 1>>, <<"s", "c4", 1>>,
       <<"c1", "r1", 0>>, <<"c1", "r2", 0>>,
       <<"c2", "r2", 1>>, <<"c2", "r3", 0>>, <<"c2", "r4", 0>>,
       <<"c3", "r4", 0>>, <<"c3", "r5", 1>>,
       <<"c4", "r4", 0>>, <<"c4", "r5", 0>>, <<"c4", "r6", 1>>, <<"c4", "r7", 0>>,
       <<"r1", "p1", 0>>,
       <<"r2", "p1", 1>>,
       <<"r3", "p2", 0>>,
       <<"r4", "p2", 0>>,
       <<"r5", "p3", 1>>,
       <<"r6", "p3", 1>>,
       <<"r7", "p3", 0>>,
       <<"p1", "t", 1>>,
       <<"p2", "t", 0>>,
       <<"p3", "t", 2>> >>

\* Week 4 SGT Question 1, Week 5 LGT Question 1. Max flow = 10.
Week4SGT1 ==
    << <<"s", "a", 8>>, <<"s", "b", 3>>,
       <<"a", "p", 7>>,
       <<"b", "a", 2>>, <<"b", "c", 2>>, <<"b", "d", 4>>,
       <<"c", "d", 1>>, <<"c", "h", 3>>,
       <<"d", "t", 5>>,
       <<"h", "d", 1>>, <<"h", "t", 3>>,
       <<"p", "d", 5>>, <<"p", "t", 3>> >>

\* Week 4 Quiz Question 1. Max flow = 7.
Week4Quiz1 ==
    << <<"s", "a", 5>>, <<"s", "c", 4>>,
       <<"a", "b", 4>>, <<"a", "u", 3>>,
       <<"c", "u", 1>>, <<"c", "b", 2>>,
       <<"b", "t", 3>>,
       <<"u", "t", 7>> >>

\* every list of at most MaxEdges distinct edges over three nodes, capacities 0..MaxCap
FFNodes == {"s", "a", "t"}

TinyInstance ==
    /\ edges \in DistinctSeqs(Pairs(FFNodes), MaxEdges)
    /\ capacities \in [ToSet(edges) -> 0..MaxCap]
    /\ init_flow = None

\* every set of at most MaxSortedEdges edges over four nodes, listed in sorted
\* order, with unit capacities
SortedNodes == <<"a", "b", "s", "t">>

SortedPairs ==
    LET n == Len(SortedNodes)
    IN [k \in 1..(n * n) |-> <<SortedNodes[((k - 1) \div n) + 1], SortedNodes[((k - 1) % n) + 1]>>]

SortedLists(maxlen) ==
    {SelectSeq(SortedPairs, LAMBDA e : e \in S) :
        S \in {T \in SUBSET Pairs(ToSet(SortedNodes)) : Cardinality(T) <= maxlen}}

SortedInstance ==
    /\ edges \in SortedLists(MaxSortedEdges)
    /\ capacities = [e \in ToSet(edges) |-> 1]
    /\ init_flow = None

\* the instances solved by maximum_flow.py's __main__
MainInstance ==
    \/ /\ edges = KeysOf(Week4LGT1)
       /\ capacities = ValuesOf(Week4LGT1)
       /\ init_flow \in {None, ValuesOf(Week4LGT1Flow)}
    \/ /\ \E items \in {Week4SGT1, Week4Quiz1} :
             /\ edges = KeysOf(items)
             /\ capacities = ValuesOf(items)
       /\ init_flow = None

InitFF ==
    /\ \/ TinyInstance
       \/ SortedInstance
       \/ MainInstance
    /\ source = "s"
    /\ sink = "t"
    /\ search_method \in Methods
    /\ nodes = <<>>
    /\ costs = <<>>
    /\ supply = <<>>
    /\ ff = NoFrame
    /\ mcf = NoFrame
    /\ mf = NoFrame
    /\ lower_bounds = None
    /\ upper_bounds = None
    /\ pc = "call_ff"
    /\ run = 1
    /\ previous = <<>>
    /\ result = <<>>

NextFF == FFCall \/ FFIterate \/ FFReturn \/ FFAgain

SpecFF == InitFF /\ [][NextFF]_vars

(***************************************************************************)
(* feasible_flow.py                                                        *)
(***************************************************************************)
\* lines 51-57: one iteration of "for node in nodes"
g_prime_body(ns, sup, st) ==
    LET node == ns[st.i]
    IN IF sup[node] > 0
       THEN [i |-> st.i + 1,
             edges_prime |-> Append(st.edges_prime, <<"s_prime", node>>),
             capacities_prime |-> (<<"s_prime", node>> :> sup[node]) @@ st.capacities_prime]
       ELSE IF sup[node] < 0
       THEN [i |-> st.i + 1,
             edges_prime |-> Append(st.edges_prime, <<node, "t_prime">>),
             capacities_prime |-> (<<node, "t_prime">> :> (- sup[node])) @@ st.capacities_prime]
       ELSE [st EXCEPT !.i = @ + 1]

\* lines 49-57: G_prime, as [edges_prime, capacities_prime]
construct_g_prime(ns, es, caps, sup) ==
    run_loop(LAMBDA st : g_prime_body(ns, sup, st),
             LAMBDA st : st.i > Len(ns),
             [i |-> 1, edges_prime |-> es, capacities_prime |-> caps])

\* line 70: sum([flow[(v,w)] for (v,w) in edges if v == node])
\*        - sum([flow[(u,v)] for (u,v) in edges if v == node])
net_outgoing_flow(es, flow, node) ==
    LET out == SelectSeq(es, LAMBDA e : e[1] = node)
        inc == SelectSeq(es, LAMBDA e : e[2] = node)
    IN SumSeq([i \in DOMAIN out |-> flow[out[i]]]) - SumSeq([i \in DOMAIN inc |-> flow[inc[i]]])

\* lines 63-74: strip the added edges and check the supplies
feasible_result(ns, es, sup, flow_prime, flow_value) ==
    LET flow == [edge \in ToSet(es) |-> flow_prime[edge]]
    IN <<\A i \in DOMAIN ns : net_outgoing_flow(es, flow, ns[i]) = sup[ns[i]],
         flow, flow_value>>

\* the whole call, as a function: <<feasible, flow, flow_value>>
feasible_flow(ns, es, caps, sup, method, flow) ==
    LET g == construct_g_prime(ns, es, caps, sup)
        r == ford_fulkerson(g.edges_prime, g.capacities_prime, "s_prime", "t_prime",
                            method, flow)
    IN feasible_result(ns, es, sup, r[1], r[2])

\* lines 49-60: build G_prime and enter ford_fulkerson on it
FeasCall ==
    /\ pc = "call_feas"
    /\ LET g == construct_g_prime(nodes, edges, capacities, supply)
       IN ff' = FFEnter(g.edges_prime, g.capacities_prime, "s_prime", "t_prime",
                        search_method, init_flow)
    /\ pc' = "feas_ff_loop"
    /\ UNCHANGED <<nodes, edges, capacities, costs, supply, lower_bounds, upper_bounds,
                   source, sink, search_method, mf,
                   init_flow, mcf, run, previous, result>>

\* maximum_flow.py line 293 and feasible_flow.py lines 60-74
FeasReturn ==
    /\ pc = "feas_ff_loop"
    /\ ff.augmenting_path_nodes = None
    /\ result' = feasible_result(nodes, edges, supply, ff.flow,
                                 calculate_flow_value(ff.flow, ff.source))
    /\ pc' = "done"
    /\ UNCHANGED <<nodes, edges, capacities, costs, supply, lower_bounds, upper_bounds,
                   source, sink, search_method, mf,
                   init_flow, ff, mcf, run, previous>>

(***************************************************************************)
(* Inputs of the feasible-flow specification.                              *)
(***************************************************************************)
\* a supply dict literal, as a list of <<node, supply>> in insertion order
SupplyNodes(items) == [i \in DOMAIN items |-> items[i][1]]

SupplyOf(items) ==
    [n \in ToSet(SupplyNodes(items)) |->
        items[CHOOSE i \in DOMAIN items : items[i][1] = n][2]]

\* Week 4 LGT Question 2. Feasible flow exists.
Week4LGT2Supply ==
    << <<"a", 10>>, <<"b", 0>>, <<"c", 0>>, <<"d", -8>>,
       <<"e", 3>>, <<"f", 0>>, <<"g", 0>>, <<"h", -5>> >>

Week4LGT2 ==
    << <<"a", "b", 6>>, <<"a", "c", 7>>, <<"a", "f", 2>>,
       <<"b", "c", 8>>, <<"b", "g", 7>>,
       <<"c", "d", 6>>,
       <<"e", "b", 2>>, <<"e", "f", 1>>,
       <<"f", "c", 4>>, <<"f", "h", 4>>,
       <<"g", "d", 2>>, <<"g", "h", 3>> >>

FeasNodes == <<"a", "b", "c">>

\* every list of at most MaxEdges distinct edges over three nodes, capacities
\* 1..MaxCap, and every supply map with values in -MaxSupply..MaxSupply
TinyFeasInstance ==
    /\ nodes = FeasNodes
    /\ edges \in DistinctSeqs(Pairs(ToSet(FeasNodes)), MaxEdges)
    /\ capacities \in [ToSet(edges) -> 1..MaxCap]
    /\ supply \in [ToSet(FeasNodes) -> (-MaxSupply)..MaxSupply]

\* the instance solved by feasible_flow.py's __main__
MainFeasInstance ==
    /\ nodes = SupplyNodes(Week4LGT2Supply)
    /\ edges = KeysOf(Week4LGT2)
    /\ capacities = ValuesOf(Week4LGT2)
    /\ supply = SupplyOf(Week4LGT2Supply)

InitFeas ==
    /\ \/ TinyFeasInstance
       \/ MainFeasInstance
    /\ search_method \in Methods
    /\ init_flow = None
    /\ source = None
    /\ sink = None
    /\ costs = <<>>
    /\ ff = NoFrame
    /\ mcf = NoFrame
    /\ mf = NoFrame
    /\ lower_bounds = None
    /\ upper_bounds = None
    /\ pc = "call_feas"
    /\ run = 1
    /\ previous = <<>>
    /\ result = <<>>

NextFeas == FeasCall \/ FFIterate \/ FeasReturn

SpecFeas == InitFeas /\ [][NextFeas]_vars

(***************************************************************************)
(* shortest_path.py: bellman_ford                                          *)
(***************************************************************************)
\* distances[u] + weights[(u,v)] in float arithmetic: inf + w = inf
plus(distance, weight) == IF distance = Inf THEN Inf ELSE distance + weight

\* None where a node name is expected (parents[node] = None)
NoNode == ""

\* lines 25-29
initialise(ns, s) ==
    [parents |-> [node \in ToSet(ns) |-> NoNode],
     distances |-> [node \in ToSet(ns) |-> IF node = s THEN 0 ELSE Inf]]

\* lines 50-53
relax(edge, weights, st) ==
    LET u == edge[1]
        v == edge[2]
    IN IF st.distances[v] > plus(st.distances[u], weights[<<u, v>>])
       THEN [parents |-> [st.parents EXCEPT ![v] = u],
             distances |-> [st.distances EXCEPT ![v] = plus(st.distances[u], weights[<<u, v>>])]]
       ELSE st

\* lines 191-193: the k-th relaxation of the len(nodes) - 1 passes over the edges
bellman_ford_body(es, weights, st) ==
    LET r == relax(es[((st.k - 1) % Len(es)) + 1], weights, st)
    IN [k |-> st.k + 1, parents |-> r.parents, distances |-> r.distances]

\* lines 187-203: [parents, distances], both None when a negative cycle is found
bellman_ford(ns, es, weights, s) ==
    LET init == initialise(ns, s)
        st == run_loop(LAMBDA t : bellman_ford_body(es, weights, t),
                       LAMBDA t : t.k > (Len(ns) - 1) * Len(es),
                       [k |-> 1, parents |-> init.parents, distances |-> init.distances])
    IN IF \E i \in DOMAIN es :
              st.distances[es[i][2]] > plus(st.distances[es[i][1]], weights[es[i]])
       THEN [parents |-> None, distances |-> None]
       ELSE [parents |-> st.parents, distances |-> st.distances]

(***************************************************************************)
(* minimum_cost_flow.py                                                    *)
(***************************************************************************)
\* lines 49-53: one iteration of "for (u, v) in edges"
mcf_residual_body(es, caps, cs, flow, st) ==
    LET u == es[st.i][1]
        v == es[st.i][2]
        c1 == DictSet(st.residual_capacities, <<u, v>>, caps[<<u, v>>] - flow[<<u, v>>])
        w1 == DictSet(st.residual_costs, <<u, v>>, cs[<<u, v>>])
    IN [i |-> st.i + 1,
        residual_capacities |-> DictSet(c1, <<v, u>>, flow[<<u, v>>]),
        residual_costs |-> DictSet(w1, <<v, u>>, - cs[<<u, v>>])]

\* lines 45-60 (construct_residual_graph of minimum_cost_flow.py):
\* [residual_edges, residual_capacities, residual_costs, residual_supply]
mcf_construct_residual_graph(ns, es, caps, cs, sup, flow) ==
    LET st == run_loop(LAMBDA t : mcf_residual_body(es, caps, cs, flow, t),
                       LAMBDA t : t.i > Len(es),
                       [i |-> 1, residual_capacities |-> EmptyDict,
                        residual_costs |-> EmptyDict])
    IN [residual_edges |->
            SelectSeq(st.residual_capacities.keys,
                      LAMBDA edge : st.residual_capacities.val[edge] > 0),
        residual_capacities |-> st.residual_capacities.val,
        residual_costs |-> st.residual_costs.val,
        residual_supply |->
            [node \in ToSet(ns) |-> sup[node] - net_outgoing_flow(es, flow, node)]]

\* lines 129-133: one iteration of "while (parent)"
mcf_path_body(parents, st) ==
    [augmenting_path_edges |-> Append(st.augmenting_path_edges,
                                      <<st.parent, st.current_node>>),
     current_node |-> st.parent,
     parent |-> parents[st.parent]]

Reverse(q) == [i \in DOMAIN q |-> q[Len(q) + 1 - i]]

\* lines 126-135: the tree path from the supply node to demand_node
mcf_augmenting_path_edges(parents, demand_node) ==
    Reverse(run_loop(LAMBDA st : mcf_path_body(parents, st),
                     LAMBDA st : st.parent = NoNode,
                     [augmenting_path_edges |-> <<>>, current_node |-> demand_node,
                      parent |-> parents[demand_node]]).augmenting_path_edges)

\* mutant: the capacity is not bounded by the demand
min3_without_demand(x, y, z) == IF z < x THEN z ELSE x

\* line 138: min(x, y, z)
min3(x, y, z) ==
    LET m == IF y < x THEN y ELSE x IN IF z < m THEN z ELSE m

\* lines 153-154 and 158: residual_supply_nodes.remove(supply_node)
remove(q, x) == SelectSeq(q, LAMBDA y : y # x)

\* lines 115-158: one iteration of the while loop on the frame st; the frame gets
\* raised = TRUE when line 123 subscripts parents = None
mcf_iteration(ns, es, caps, cs, sup, st) ==
    LET g == mcf_construct_residual_graph(ns, es, caps, cs, sup, st.flow)
        supply_node == Head(st.residual_supply_nodes)
        bf == bellman_ford(ns, g.residual_edges, g.residual_costs, supply_node)
    IN IF bf.parents = None /\ \E i \in DOMAIN ns : g.residual_supply[ns[i]] < 0
       THEN [st EXCEPT !.raised = TRUE]
       ELSE LET residual_demand_nodes ==
                    SelectSeq(ns, LAMBDA node : /\ g.residual_supply[node] < 0
                                                /\ bf.parents[node] # NoNode)
            IN IF residual_demand_nodes # <<>>
               THEN LET demand_node == residual_demand_nodes[1]
                        augmenting_path_edges ==
                            mcf_augmenting_path_edges(bf.parents, demand_node)
                        augmenting_path_capacity ==
                            min3(g.residual_supply[supply_node],
                                 - g.residual_supply[demand_node],
                                 calculate_path_capacity(g.residual_capacities,
                                                         augmenting_path_edges))
                        f == run_loop(LAMBDA t : augment_body(es, augmenting_path_edges,
                                                              augmenting_path_capacity, t),
                                      LAMBDA t : t.i > Len(es),
                                      [i |-> 1, flow |-> st.flow]).flow
                        g2 == mcf_construct_residual_graph(ns, es, caps, cs, sup, f)
                    IN [st EXCEPT !.flow = f,
                                  !.residual_supply_nodes =
                                      IF g2.residual_supply[supply_node] = 0
                                      THEN remove(@, supply_node) ELSE @]
               ELSE [st EXCEPT !.residual_supply_nodes = remove(@, supply_node)]

\* lines 115-158, and negative_cycle records that bellman_ford (line 120) has
\* returned parents = None during the call
mcf_body(ns, es, caps, cs, sup, st) ==
    LET g == mcf_construct_residual_graph(ns, es, caps, cs, sup, st.flow)
        bf == bellman_ford(ns, g.residual_edges, g.residual_costs,
                           Head(st.residual_supply_nodes))
    IN [mcf_iteration(ns, es, caps, cs, sup, st) EXCEPT
            !.negative_cycle = @ \/ bf.parents = None]

\* lines 101-111: entry of minimum_cost_flow
MCFEnter(ns, es, caps, cs, sup) ==
    LET flow == [edge \in ToSet(es) |-> 0]
        g == mcf_construct_residual_graph(ns, es, caps, cs, sup, flow)
    IN [flow |-> flow,
        residual_supply_nodes |-> SelectSeq(ns, LAMBDA node : g.residual_supply[node] > 0),
        raised |-> FALSE,
        negative_cycle |-> FALSE]

\* lines 161-177: <<feasible, flow, flow_value, flow_cost>>
mcf_result(ns, es, cs, sup, flow) ==
    LET supply_nodes == SelectSeq(ns, LAMBDA node : sup[node] > 0)
    IN <<\A i \in DOMAIN ns : net_outgoing_flow(es, flow, ns[i]) = sup[ns[i]],
         flow,
         SumSeq([i \in DOMAIN supply_nodes |-> net_outgoing_flow(es, flow, supply_nodes[i])]),
         SumSeq([i \in DOMAIN es |-> flow[es[i]] * cs[es[i]]])>>

MCFCall ==
    /\ pc = "call_mcf"
    /\ mcf' = MCFEnter(nodes, edges, capacities, costs, supply)
    /\ pc' = "mcf_loop"
    /\ UNCHANGED <<nodes, edges, capacities, costs, supply, lower_bounds, upper_bounds,
                   source, sink, search_method, mf,
                   init_flow, ff, run, previous, result>>

\* lines 112-158: one iteration of the while loop; a TypeError ends the call
MCFIterate ==
    /\ pc = "mcf_loop"
    /\ mcf.residual_supply_nodes # <<>>
    /\ mcf' = mcf_body(nodes, edges, capacities, costs, supply, mcf)
    /\ pc' = IF mcf'.raised THEN "raised" ELSE "mcf_loop"
    /\ UNCHANGED <<nodes, edges, capacities, costs, supply, lower_bounds, upper_bounds,
                   source, sink, search_method, mf,
                   init_flow, ff, run, previous, result>>

\* lines 160-177
MCFReturn ==
    /\ pc = "mcf_loop"
    /\ mcf.residual_supply_nodes = <<>>
    /\ result' = mcf_result(nodes, edges, costs, supply, mcf.flow)
    /\ pc' = "done"
    /\ UNCHANGED <<nodes, edges, capacities, costs, supply, lower_bounds, upper_bounds,
                   source, sink, search_method, mf,
                   init_flow, ff, mcf, run, previous>>

(***************************************************************************)
(* Inputs of the minimum-cost-flow specification.                          *)
(***************************************************************************)
\* a capacity/cost pair of dict literals, as a list of <<u, v, capacity, cost>>
CostsOf(items) ==
    LET at == DictOf(items) IN [e \in DOMAIN at |-> items[at[e]][4]]

\* Week 7 Slide 9. Feasible flow of value 12 and cost 60.
Week7Slide9Supply ==
    << <<"a", 5>>, <<"b", 7>>, <<"c", 0>>, <<"i", -9>>, <<"p", -3>> >>

Week7Slide9 ==
    << <<"a", "c", 4, 1>>, <<"a", "i", 5, 3>>,
       <<"b", "c", 8, 4>>, <<"b", "p", 4, 3>>,
       <<"c", "i", 9, 5>>, <<"c", "p", 3, 0>> >>

\* Week 7 LGT Question 2c. Feasible flow of value 13 and cost 84.
Week7LGT2cSupply ==
    << <<"c", 5>>, <<"a", 8>>, <<"b", 0>>, <<"e", -4>>, <<"k", -6>>,
       <<"p", 0>>, <<"q", -3>>, <<"u", 0>>, <<"v", 0>> >>

Week7LGT2c ==
    << <<"a", "b", 2, 2>>, <<"a", "u", 5, 4>>, <<"a", "v", 4, 3>>,
       <<"b", "c", 2, 3>>,
       <<"c", "a", 3, 2>>, <<"c", "e", 3, 8>>, <<"c", "k", 1, 2>>, <<"c", "v", 4, 1>>,
       <<"e", "k", 1, 5>>,
       <<"k", "q", 8, 1>>,
       <<"p", "e", 4, 3>>,
       <<"q", "p", 4, 1>>,
       <<"u", "b", 6, 3>>, <<"u", "q", 4, 3>>,
       <<"v", "k", 4, 1>>, <<"v", "q", 4, 2>> >>

McfNodes == <<"a", "b">>

\* every edge list over two nodes, capacities 1..MaxCap, costs -MaxCost..MaxCost,
\* and every supply map with values in -MaxSupply..MaxSupply
TinyMcfInstance ==
    /\ nodes = McfNodes
    /\ edges \in DistinctSeqs(Pairs(ToSet(McfNodes)), MaxEdges)
    /\ capacities \in [ToSet(edges) -> 1..MaxCap]
    /\ costs \in [ToSet(edges) -> (-MaxCost)..MaxCost]
    /\ supply \in [ToSet(McfNodes) -> (-MaxSupply)..MaxSupply]

\* the instances solved by minimum_cost_flow.py's __main__
MainMcfInstance ==
    \/ /\ nodes = SupplyNodes(Week7Slide9Supply)
       /\ edges = KeysOf(Week7Slide9)
       /\ capacities = ValuesOf(Week7Slide9)
       /\ costs = CostsOf(Week7Slide9)
       /\ supply = SupplyOf(Week7Slide9Supply)
    \/ /\ nodes = SupplyNodes(Week7LGT2cSupply)
       /\ edges = KeysOf(Week7LGT2c)
       /\ capacities = ValuesOf(Week7LGT2c)
       /\ costs = CostsOf(Week7LGT2c)
       /\ supply = SupplyOf(Week7LGT2cSupply)

InitMCF ==
    /\ \/ TinyMcfInstance
       \/ MainMcfInstance
    /\ search_method = None
    /\ init_flow = None
    /\ source = None
    /\ sink = None
    /\ ff = NoFrame
    /\ mcf = NoFrame
    /\ mf = NoFrame
    /\ lower_bounds = None
    /\ upper_bounds = None
    /\ pc = "call_mcf"
    /\ run = 1
    /\ previous = <<>>
    /\ result = <<>>

NextMCF == MCFCall \/ MCFIterate \/ MCFReturn

SpecMCF == InitMCF /\ [][NextMCF]_vars

(***************************************************************************)
(* Properties of ford_fulkerson's result.                                  *)
(***************************************************************************)
NodesOf(es) == {e[1] : e \in ToSet(es)} \cup {e[2] : e \in ToSet(es)}

\* net outgoing flow of f at n, over the edge list es
NetOut(es, f, n) ==
    SumOver({e \in ToSet(es) : e[1] = n}, f) - SumOver({e \in ToSet(es) : e[2] = n}, f)

\* the first solve has returned, and it was started from the zero flow
ReturnedFromZero == pc = "done" /\ run = 1 /\ init_flow = None

RespectsCapacities(es, caps, f) == \A e \in ToSet(es) : 0 <= f[e] /\ f[e] <= caps[e]

Conserves(es, f, src, snk) ==
    \A n \in NodesOf(es) \ {src, snk} : NetOut(es, f, n) = 0

\* C1: the flow ford_fulkerson returns from the zero flow satisfies
\* 0 <= flow(e) <= capacity(e) on every edge, antiparallel pairs included.
C1_CapacityBound ==
    ReturnedFromZero => RespectsCapacities(edges, capacities, result[1])

\* C2: the flow ford_fulkerson returns from the zero flow has net outgoing flow 0
\* at every node other than the source and the sink.
C2_Conservation ==
    ReturnedFromZero => Conserves(edges, result[1], source, sink)

\* all flows of the instance: capacity bounds and conservation
Flows(es, caps, src, snk) ==
    {f \in [ToSet(es) -> 0..MaxCap] :
        RespectsCapacities(es, caps, f) /\ Conserves(es, f, src, snk)}

MaximumFlowValue(es, caps, src, snk) ==
    CHOOSE v \in {NetOut(es, f, src) : f \in Flows(es, caps, src, snk)} :
        \A f \in Flows(es, caps, src, snk) : NetOut(es, f, src) <= v

\* the instances whose capacities are within 0..MaxCap, where all flows can be listed
Enumerable == \A e \in ToSet(edges) : capacities[e] <= MaxCap

\* C3: the value ford_fulkerson returns from the zero flow is the maximum net
\* source outflow over all flows that satisfy the capacity bounds and conservation.
C3_MaximumFlow ==
    (ReturnedFromZero /\ Enumerable) =>
        result[2] = MaximumFlowValue(edges, capacities, source, sink)

\* C4: for a fixed graph, capacities, source, sink and starting flow the four
\* searches give ford_fulkerson the same flow value, and on the 25-edge instance
\* of Week 4 LGT Question 1 that value is 4.
C4_StrategyInvariance ==
    (pc = "done" /\ run = 1) =>
        /\ \A m \in Methods :
              ford_fulkerson(edges, capacities, source, sink, m, init_flow)[2] = result[2]
        /\ edges = KeysOf(Week4LGT1) => result[2] = 4

\* C5: the value ford_fulkerson returns is the net outgoing flow of the returned
\* flow at the source and the negation of its net outgoing flow at the sink.
C5_ValueSymmetry ==
    pc = "done" =>
        /\ result[2] = NetOut(edges, result[1], source)
        /\ result[2] = - NetOut(edges, result[1], sink)

\* C6: a second ford_fulkerson call on the same inputs, started from the flow the
\* first call returned, performs no augmentation and returns the same flow and value.
C6_Idempotence ==
    (pc = "done" /\ run = 2) => (ff.counter = 0 /\ result = previous)

\* the second solve returned after a first solve that augmented at least twice
C6_Witness ==
    /\ pc = "done" /\ run = 2
    /\ previous[2] >= 2
    /\ result = previous
    /\ \E e \in ToSet(edges) : previous[1][e] > 0

(***************************************************************************)
(* Properties of feasible_flow's result.                                   *)
(***************************************************************************)
\* f meets the capacity bounds and has net outgoing flow sup[n] at every node n
MeetsSupplies(ns, es, caps, sup, f) ==
    /\ RespectsCapacities(es, caps, f)
    /\ \A n \in ToSet(ns) : NetOut(es, f, n) = sup[n]

FeasibleFlowExists(ns, es, caps, sup) ==
    \E f \in [ToSet(es) -> 0..MaxCap] : MeetsSupplies(ns, es, caps, sup, f)

FeasReturned == pc = "done" /\ nodes # <<>> /\ costs = <<>>

\* C7: feasible_flow returns feasible = true exactly when some flow meets the
\* capacity bounds and has net outgoing flow equal to the supply at every node,
\* and the four searches give the same boolean.
C7_FeasibilityVerdict ==
    FeasReturned =>
        /\ Enumerable =>
              (result[1] <=> FeasibleFlowExists(nodes, edges, capacities, supply))
        /\ \A m \in Methods :
              feasible_flow(nodes, edges, capacities, supply, m, init_flow)[1] = result[1]

\* sum of the positive supplies
PositiveSupply(ns, sup) ==
    SumOver({n \in ToSet(ns) : sup[n] > 0}, sup)

\* C8: when feasible_flow returns feasible = true, the keys of the returned flow
\* are exactly the original edges, the flow meets the capacity bounds, its net
\* outgoing flow is the supply at every node, and the returned value is the sum
\* of the positive supplies.
C8_FeasibleResult ==
    (FeasReturned /\ result[1]) =>
        /\ DOMAIN result[2] = ToSet(edges)
        /\ MeetsSupplies(nodes, edges, capacities, supply, result[2])
        /\ result[3] = PositiveSupply(nodes, supply)

(***************************************************************************)
(* Properties of minimum_cost_flow's result.                               *)
(***************************************************************************)
\* sum of flow(e) * cost(e) over the edge list
FlowCost(es, cs, f) == SumSeq([i \in DOMAIN es |-> f[es[i]] * cs[es[i]]])

\* the edges c[1]->c[2]->...->c[Len(c)]->c[1]
CycleEdges(c) == [i \in DOMAIN c |-> <<c[i], c[(i % Len(c)) + 1]>>]

\* no directed cycle of the graph has a negative total cost
NoNegativeCycle(ns, es, cs) ==
    \A c \in DistinctSeqs(ToSet(ns), Len(ns)) :
        (Len(c) >= 2 /\ \A i \in DOMAIN c : CycleEdges(c)[i] \in ToSet(es)) =>
            SumSeq([i \in DOMAIN c |-> cs[CycleEdges(c)[i]]]) >= 0

\* the flows that satisfy the capacities and the declared supplies
SupplyFlows(ns, es, caps, sup) ==
    {f \in [ToSet(es) -> 0..MaxCap] : MeetsSupplies(ns, es, caps, sup, f)}

\* C9: when the costs admit no negative-cost cycle and minimum_cost_flow returns
\* feasible = true, the returned cost is the sum of flow(e) * cost(e) over the
\* returned flow and is the minimum of that sum over all flows that satisfy the
\* capacities and the declared supplies.
C9_MinimumCost ==
    (pc = "done" /\ result[1] /\ Enumerable /\ NoNegativeCycle(nodes, edges, costs)) =>
        /\ result[4] = FlowCost(edges, costs, result[2])
        /\ \E f \in SupplyFlows(nodes, edges, capacities, supply) :
              FlowCost(edges, costs, f) = result[4]
        /\ \A f \in SupplyFlows(nodes, edges, capacities, supply) :
              FlowCost(edges, costs, f) >= result[4]

Week7Slide9Instance ==
    /\ nodes = SupplyNodes(Week7Slide9Supply)
    /\ edges = KeysOf(Week7Slide9)
    /\ capacities = ValuesOf(Week7Slide9)
    /\ costs = CostsOf(Week7Slide9)
    /\ supply = SupplyOf(Week7Slide9Supply)

\* C10: on the instance with supplies a=5, b=7, c=0, i=-9, p=-3 and edges
\* (a,c) cap 4 cost 1, (a,i) cap 5 cost 3, (b,c) cap 8 cost 4, (b,p) cap 4 cost 3,
\* (c,i) cap 9 cost 5, (c,p) cap 3 cost 0, minimum_cost_flow does not raise and
\* returns feasible = true, flow value 12 and flow cost 60.
C10_Week7Slide9 ==
    Week7Slide9Instance =>
        /\ pc # "raised"
        /\ pc = "done" => (result[1] /\ result[3] = 12 /\ result[4] = 60)

\* the call on the Week 7 Slide 9 instance has returned, after augmenting
C10_Witness ==
    /\ Week7Slide9Instance
    /\ pc = "done"
    /\ result[1] /\ result[3] = 12 /\ result[4] = 60
    /\ result[2][<<"b", "c">>] = 4
    /\ mcf.residual_supply_nodes = <<>>

\* C11: on an instance without a negative-cost cycle, minimum_cost_flow returns
\* feasible = true exactly when some flow meets the capacities and the declared
\* supplies, which is also the verdict feasible_flow gives.
C11_FeasibilityVerdict ==
    (pc = "done" /\ costs # <<>> /\ Enumerable /\ NoNegativeCycle(nodes, edges, costs)) =>
        /\ result[1] <=> FeasibleFlowExists(nodes, edges, capacities, supply)
        /\ result[1] = feasible_flow(nodes, edges, capacities, supply, "bfs", None)[1]

(***************************************************************************)
(* minimum_flow.py                                                         *)
(***************************************************************************)
\* lines 37-38: one iteration of "for (u, v) in edges"
residual_min_flow_body(es, lower, upper, flow, st) ==
    LET u == es[st.i][1]
        v == es[st.i][2]
        d1 == DictSet(st.residual_capacities, <<u, v>>,
                      minus(upper[<<u, v>>], flow[<<u, v>>]))
    IN [i |-> st.i + 1,
        residual_capacities |-> DictSet(d1, <<v, u>>, flow[<<u, v>>] - lower[<<u, v>>])]

\* returns the dict; .keys is residual_edges, .val is residual_capacities
construct_residual_graph_min_flow(es, lower, upper, flow) ==
    run_loop(LAMBDA st : residual_min_flow_body(es, lower, upper, flow, st),
             LAMBDA st : st.i > Len(es),
             [i |-> 1, residual_capacities |-> EmptyDict]).residual_capacities

\* lines 88-89 and 114-115
find_path_min_flow(es, lower, upper, src, snk, method, flow) ==
    LET g == construct_residual_graph_min_flow(es, lower, upper, flow)
    IN search(method, g.keys, g.val, src, snk)

\* lines 97-105: the flow after augmenting along augmenting_path_nodes
augment_min_flow(es, lower, upper, flow, augmenting_path_nodes) ==
    LET g == construct_residual_graph_min_flow(es, lower, upper, flow)
        augmenting_path_edges == get_path_edges(augmenting_path_nodes)
        augmenting_path_capacity == calculate_path_capacity(g.val, augmenting_path_edges)
    IN run_loop(LAMBDA st : augment_body(es, augmenting_path_edges,
                                         augmenting_path_capacity, st),
                LAMBDA st : st.i > Len(es),
                [i |-> 1, flow |-> flow]).flow

\* lines 93-115: one iteration of the while loop
ff_min_flow_body(es, lower, upper, src, snk, method, st) ==
    LET f == augment_min_flow(es, lower, upper, st.flow, st.augmenting_path_nodes)
    IN [flow |-> f,
        counter |-> st.counter + 1,
        augmenting_path_nodes |-> find_path_min_flow(es, lower, upper, src, snk, method, f)]

\* lines 82-89: entry of ford_fulkerson_min_flow
MinFlowEnter(es, lower, upper, src, snk, method, flow) ==
    LET f == initial_flow(es, flow)
    IN [flow |-> f, counter |-> 0,
        augmenting_path_nodes |-> find_path_min_flow(es, lower, upper, src, snk, method, f)]

\* the whole call, as a function: <<flow, flow_value>>
ford_fulkerson_min_flow(es, lower, upper, src, snk, method, flow) ==
    LET st == run_loop(LAMBDA s : ff_min_flow_body(es, lower, upper, src, snk, method, s),
                       LAMBDA s : s.augmenting_path_nodes = None,
                       MinFlowEnter(es, lower, upper, src, snk, method, flow))
    IN <<st.flow, calculate_flow_value(st.flow, src)>>

\* lines 177-179: one iteration of "for node in nodes"
edges_prime_body(ns, st) ==
    [i |-> st.i + 1,
     edges_prime |-> st.edges_prime \o << <<"s_prime", ns[st.i]>>, <<ns[st.i], "t_prime">> >>]

\* lines 176-180
min_flow_edges_prime(ns, es, src, snk) ==
    Append(run_loop(LAMBDA st : edges_prime_body(ns, st),
                    LAMBDA st : st.i > Len(ns),
                    [i |-> 1, edges_prime |-> es]).edges_prime,
           <<snk, src>>)

\* lines 189-190: sums of the lower bounds of the edges into and out of node
lower_in(es, lower, node) ==
    LET inc == SelectSeq(es, LAMBDA e : e[2] = node)
    IN SumSeq([i \in DOMAIN inc |-> lower[inc[i]]])

lower_out(es, lower, node) ==
    LET out == SelectSeq(es, LAMBDA e : e[1] = node)
    IN SumSeq([i \in DOMAIN out |-> lower[out[i]]])

\* lines 187-193: later assignments overwrite earlier ones
min_flow_capacities(ns, es, lower, upper, src, snk) ==
    (<<snk, src>> :> Inf)
    @@ [edge \in ToSet(es) |-> minus(upper[edge], lower[edge])]
    @@ [edge \in {<<"s_prime", n>> : n \in ToSet(ns)} \cup {<<n, "t_prime">> : n \in ToSet(ns)} |->
            IF edge[1] = "s_prime" THEN lower_in(es, lower, edge[2])
            ELSE lower_out(es, lower, edge[1])]

\* lines 199-201
add_lower_bounds(es, lower, flow_prime) ==
    [edge \in ToSet(es) |-> flow_prime[edge] + lower[edge]]

\* lines 169-201: the feasible flow minimum_flow starts from
min_flow_feasible_flow(ns, es, lower, upper, src, snk, method, flow) ==
    IF flow = <<>>
    THEN add_lower_bounds(es, lower,
             ford_fulkerson(min_flow_edges_prime(ns, es, src, snk),
                            min_flow_capacities(ns, es, lower, upper, src, snk),
                            "s_prime", "t_prime", method, None)[1])
    ELSE flow

\* the whole call, as a function: <<min_flow, min_flow_value>>
minimum_flow(ns, es, lower, upper, src, snk, method, flow) ==
    LET r == ford_fulkerson_min_flow(es, lower, upper, snk, src, method,
                 min_flow_feasible_flow(ns, es, lower, upper, src, snk, method, flow))
    IN <<r[1], - r[2]>>

\* lines 169-196, or 204 when a feasible flow was given
MinCall ==
    /\ pc = "call_min"
    /\ IF init_flow = <<>>
       THEN /\ ff' = FFEnter(min_flow_edges_prime(nodes, edges, source, sink),
                             min_flow_capacities(nodes, edges, lower_bounds, upper_bounds,
                                                 source, sink),
                             "s_prime", "t_prime", search_method, None)
            /\ pc' = "min_ff_loop"
            /\ mf' = mf
       ELSE /\ mf' = MinFlowEnter(edges, lower_bounds, upper_bounds, sink, source,
                                  search_method, init_flow)
            /\ pc' = "min_loop"
            /\ ff' = ff
    /\ UNCHANGED <<nodes, edges, capacities, costs, supply, lower_bounds, upper_bounds,
                   source, sink, search_method, init_flow, mcf, run, previous, result>>

\* maximum_flow.py line 293 and minimum_flow.py lines 196-204
MinFeasible ==
    /\ pc = "min_ff_loop"
    /\ ff.augmenting_path_nodes = None
    /\ mf' = MinFlowEnter(edges, lower_bounds, upper_bounds, sink, source, search_method,
                          add_lower_bounds(edges, lower_bounds, ff.flow))
    /\ pc' = "min_loop"
    /\ UNCHANGED <<nodes, edges, capacities, costs, supply, lower_bounds, upper_bounds,
                   source, sink, search_method, init_flow, ff, mcf, run, previous, result>>

\* lines 93-115: one iteration of ford_fulkerson_min_flow's while loop
MinIterate ==
    /\ pc = "min_loop"
    /\ mf.augmenting_path_nodes # None
    /\ mf' = ff_min_flow_body(edges, lower_bounds, upper_bounds, sink, source,
                              search_method, mf)
    /\ UNCHANGED <<nodes, edges, capacities, costs, supply, lower_bounds, upper_bounds,
                   source, sink, search_method, init_flow, ff, mcf, pc, run, previous,
                   result>>

\* lines 118 and 208; a flow given by the caller has been updated in place
MinReturn ==
    /\ pc = "min_loop"
    /\ mf.augmenting_path_nodes = None
    /\ result' = <<mf.flow, - calculate_flow_value(mf.flow, sink)>>
    /\ init_flow' = IF init_flow = <<>> THEN init_flow ELSE mf.flow
    /\ pc' = "done"
    /\ UNCHANGED <<nodes, edges, capacities, costs, supply, lower_bounds, upper_bounds,
                   source, sink, search_method, ff, mcf, mf, run, previous>>

\* lines 258-260 and 311-316: the caller solves the instance again with another
\* search method, passing the same feasible_flow argument
MinAgain ==
    /\ pc = "done"
    /\ run = 1
    /\ search_method' \in Methods \ {search_method}
    /\ previous' = result
    /\ run' = 2
    /\ pc' = "call_min"
    /\ UNCHANGED <<nodes, edges, capacities, costs, supply, lower_bounds, upper_bounds,
                   source, sink, init_flow, ff, mcf, mf, result>>

(***************************************************************************)
(* Inputs of the minimum-flow specification.                               *)
(***************************************************************************)
\* a bounds dict literal, as a list of <<u, v, lower bound, upper bound>>
UpperBoundsOf(items) ==
    LET at == DictOf(items) IN [e \in DOMAIN at |-> items[at[e]][4]]

FlowOf(items) ==
    LET at == DictOf(items) IN [e \in DOMAIN at |-> items[at[e]][5]]

\* Week 5 Slides 15-18, as <<u, v, lower bound, upper bound>>. Min flow = 2.
Week5Slides ==
    << <<"a", "b", 0, 5>>, <<"a", "d", 2, 5>>, <<"b", "c", 0, 3>>,
       <<"b", "d", 5, 6>>, <<"b", "f", 0, 4>>, <<"c", "f", 0, 1>>,
       <<"d", "e", 3, 4>>, <<"d", "s", 0, 5>>, <<"e", "b", 0, 2>>,
       <<"e", "f", 5, 7>>, <<"f", "g", 0, 8>>, <<"f", "t", 0, 3>>,
       <<"s", "a", 0, 8>>, <<"s", "g", 0, 4>>, <<"g", "e", 0, 3>>,
       <<"g", "t", 0, 4>>, <<"t", "c", 0, 2>> >>

\* Week 5 SGT Question 2, as <<u, v, lower bound, upper bound, flow>>. Min flow = 13.
Week5SGT2 ==
    << <<"s", "a", 0, Inf, 5>>, <<"s", "c", 0, Inf, 6>>, <<"s", "e", 0, Inf, 5>>,
       <<"s", "g", 0, Inf, 4>>, <<"s", "i", 0, Inf, 7>>, <<"a", "b", 5, Inf, 5>>,
       <<"b", "c", 0, Inf, 0>>, <<"b", "e", 0, Inf, 0>>, <<"b", "t", 0, Inf, 5>>,
       <<"c", "d", 6, Inf, 6>>, <<"d", "t", 0, Inf, 6>>, <<"e", "f", 5, Inf, 5>>,
       <<"e", "i", 0, Inf, 0>>, <<"f", "c", 0, Inf, 0>>, <<"f", "i", 0, Inf, 0>>,
       <<"f", "t", 0, Inf, 5>>, <<"g", "h", 4, Inf, 4>>, <<"h", "i", 0, Inf, 0>>,
       <<"h", "t", 0, Inf, 4>>, <<"i", "j", 7, Inf, 7>>, <<"j", "t", 0, Inf, 7>> >>

MinNodes == <<"s", "a", "t">>

\* f meets the bounds and has net outgoing flow 0 at every node but src and snk
MeetsBounds(ns, es, lower, upper, src, snk, f) ==
    /\ \A e \in ToSet(es) : lower[e] <= f[e] /\ f[e] <= upper[e]
    /\ \A n \in ToSet(ns) \ {src, snk} : net_outgoing_flow(es, f, n) = 0

BoundedFlows(ns, es, lower, upper, src, snk) ==
    {f \in [ToSet(es) -> 0..MaxCap] : MeetsBounds(ns, es, lower, upper, src, snk, f)}

\* every list of at most MaxEdges distinct edges over three nodes, bounds with
\* 0 <= lower <= upper <= MaxCap, and no feasible flow or any flow within the bounds
TinyMinInstance ==
    /\ nodes = MinNodes
    /\ edges \in DistinctSeqs(Pairs(ToSet(MinNodes)), MaxEdges)
    /\ upper_bounds \in [ToSet(edges) -> 0..MaxCap]
    /\ lower_bounds \in [ToSet(edges) -> 0..MaxCap]
    /\ \A e \in ToSet(edges) : lower_bounds[e] <= upper_bounds[e]
    /\ init_flow \in {None} \cup BoundedFlows(nodes, edges, lower_bounds, upper_bounds, "s", "t")

\* the instances solved by minimum_flow.py's __main__
MainMinInstance ==
    \/ /\ nodes = <<"a", "b", "c", "d", "e", "f", "s", "g", "t">>
       /\ edges = KeysOf(Week5Slides)
       /\ lower_bounds = ValuesOf(Week5Slides)
       /\ upper_bounds = UpperBoundsOf(Week5Slides)
       /\ init_flow = None
    \/ /\ nodes = <<"s", "a", "b", "c", "d", "e", "f", "g", "h", "i", "j", "t">>
       /\ edges = KeysOf(Week5SGT2)
       /\ lower_bounds = ValuesOf(Week5SGT2)
       /\ upper_bounds = UpperBoundsOf(Week5SGT2)
       /\ init_flow \in {None, FlowOf(Week5SGT2)}

InitMin ==
    /\ \/ TinyMinInstance
       \/ MainMinInstance
    /\ source = "s"
    /\ sink = "t"
    /\ search_method \in Methods
    /\ capacities = <<>>
    /\ costs = <<>>
    /\ supply = <<>>
    /\ ff = NoFrame
    /\ mcf = NoFrame
    /\ mf = NoFrame
    /\ pc = "call_min"
    /\ run = 1
    /\ previous = <<>>
    /\ result = <<>>

NextMin == MinCall \/ FFIterate \/ MinFeasible \/ MinIterate \/ MinReturn \/ MinAgain

SpecMin == InitMin /\ [][NextMin]_vars

(***************************************************************************)
(* Properties of minimum_flow's result.                                    *)
(***************************************************************************)
\* the instances whose upper bounds are within 0..MaxCap, where all flows can be listed
BoundsEnumerable == \A e \in ToSet(edges) : upper_bounds[e] <= MaxCap

\* some flow meets every bound and conserves flow at the inner nodes
BoundedFlowExists ==
    BoundedFlows(nodes, edges, lower_bounds, upper_bounds, source, sink) # {}

\* the first minimum_flow call has returned, and it built the feasible flow itself
MinReturnedUnaided == pc = "done" /\ run = 1 /\ init_flow = None

\* C12: when the instance admits a flow within the bounds, the flow minimum_flow
\* returns (no feasible flow supplied) has lower(e) <= flow(e) <= upper(e) on every
\* edge and net outgoing flow 0 at every node other than source and sink.
C12_BoundsAndConservation ==
    (MinReturnedUnaided /\ BoundsEnumerable /\ BoundedFlowExists) =>
        MeetsBounds(nodes, edges, lower_bounds, upper_bounds, source, sink, result[1])

\* the smallest net source outflow over the flows within the bounds
MinimumFlowValue ==
    LET fs == BoundedFlows(nodes, edges, lower_bounds, upper_bounds, source, sink)
    IN CHOOSE v \in {net_outgoing_flow(edges, f, source) : f \in fs} :
           \A f \in fs : net_outgoing_flow(edges, f, source) >= v

\* C13: when the instance admits a flow within the bounds, the value minimum_flow
\* returns is the smallest net source outflow over all such flows, under each of
\* the four searches; on the instance of Week 5 Slides 15-18 the value is 2.
C13_MinimumValue ==
    MinReturnedUnaided =>
        /\ (BoundsEnumerable /\ BoundedFlowExists) => result[2] = MinimumFlowValue
        /\ edges = KeysOf(Week5Slides) => result[2] = 2

\* C14: a second minimum_flow call on the same instance with another search
\* returns the same flow value as the first, both when each call builds the
\* feasible flow itself and when both are given the caller's feasible flow map.
C14_MinFlowStrategyInvariance ==
    (pc = "done" /\ run = 2) => result[2] = previous[2]

\* C15: when no flow meets the bounds, minimum_flow returns feasible = false
\* alongside the flow it found.
C15_InfeasibilityReported ==
    (MinReturnedUnaided /\ BoundsEnumerable /\ ~ BoundedFlowExists) =>
        (Len(result) = 3 /\ result[1] = FALSE)

(***************************************************************************)
(* minimum_cost_flow on residual graphs with a negative cycle.             *)
(***************************************************************************)
MaxCycleSupply == 1

CycleNodes == <<"a", "b", "c">>

\* every edge list over three nodes, capacities 1..MaxCap, costs -MaxCost..MaxCost,
\* and every supply map with values in -MaxCycleSupply..MaxCycleSupply
InitCycle ==
    /\ nodes = CycleNodes
    /\ edges \in DistinctSeqs(Pairs(ToSet(CycleNodes)), MaxEdges)
    /\ capacities \in [ToSet(edges) -> 1..MaxCap]
    /\ costs \in [ToSet(edges) -> (-MaxCost)..MaxCost]
    /\ supply \in [ToSet(CycleNodes) -> (-MaxCycleSupply)..MaxCycleSupply]
    /\ search_method = None
    /\ init_flow = None
    /\ source = None
    /\ sink = None
    /\ ff = NoFrame
    /\ mcf = NoFrame
    /\ mf = NoFrame
    /\ lower_bounds = None
    /\ upper_bounds = None
    /\ pc = "call_mcf"
    /\ run = 1
    /\ previous = <<>>
    /\ result = <<>>

SpecCycle == InitCycle /\ [][NextMCF]_vars

\* C16: once bellman_ford has reported a negative cycle (parents = None) during a
\* call of minimum_cost_flow, the call has ended in a failure: the loop does not
\* go on as if the tree were empty, and no result is returned.
C16_NegativeCycleSurfaced ==
    (pc \in {"mcf_loop", "done"}) => ~ mcf.negative_cycle

(***************************************************************************)
(* Calls with edge maps that lack entries.  d[k] on a dict raises KeyError *)
(* when k is not a key of d.                                               *)
(***************************************************************************)
\* d.get(k, 0)
getitem_or_zero(d, k) ==
    [raised |-> FALSE, value |-> IF k \in DOMAIN d THEN d[k] ELSE 0]

\* d[k]
getitem(d, k) ==
    IF k \in DOMAIN d THEN [raised |-> FALSE, value |-> d[k]]
                      ELSE [raised |-> TRUE, value |-> k]

\* the first of a sequence of subscriptions, in evaluation order, that raises
first_raised(reads) ==
    LET bad == {i \in DOMAIN reads : reads[i].raised}
    IN IF bad = {} THEN None
       ELSE reads[CHOOSE i \in bad : \A j \in bad : i <= j]

\* the values that the subscriptions d[edge], edge in es, produce
values_read(es, d) == [edge \in ToSet(es) |-> getitem(d, edge).value]

\* maximum_flow.py lines 30-31: capacities[(u, v)] for each edge
ff_reads(es, caps) == [i \in DOMAIN es |-> getitem(caps, es[i])]

\* minimum_cost_flow.py lines 49-53: capacities[(u, v)], then costs[(u, v)], for each edge
mcf_reads(es, caps, cs) ==
    [i \in 1..(2 * Len(es)) |->
        IF i % 2 = 1 THEN getitem(caps, es[(i + 1) \div 2]) ELSE getitem(cs, es[i \div 2])]

RECURSIVE Flatten(_)
Flatten(qs) == IF qs = <<>> THEN <<>> ELSE Head(qs) \o Flatten(Tail(qs))

\* minimum_flow.py lines 188-192: for each node the lower bounds of its incoming
\* and of its outgoing edges; then for each edge its upper and its lower bound
min_flow_reads(ns, es, lower, upper) ==
    LET incoming(node) == SelectSeq(es, LAMBDA e : e[2] = node)
        outgoing(node) == SelectSeq(es, LAMBDA e : e[1] = node)
        of_node(node) == [i \in DOMAIN incoming(node) |-> getitem(lower, incoming(node)[i])]
                         \o [i \in DOMAIN outgoing(node) |-> getitem(lower, outgoing(node)[i])]
    IN Flatten([i \in DOMAIN ns |-> of_node(ns[i])])
       \o [i \in 1..(2 * Len(es)) |->
              IF i % 2 = 1 THEN getitem(upper, es[(i + 1) \div 2])
                           ELSE getitem(lower, es[i \div 2])]

\* minimum_flow.py lines 36-38: upper_bounds[(u, v)], then lower_bounds[(u, v)], for each edge
residual_min_flow_reads(es, lower, upper) ==
    [i \in 1..(2 * Len(es)) |->
        IF i % 2 = 1 THEN getitem(upper, es[(i + 1) \div 2]) ELSE getitem(lower, es[i \div 2])]

KeyError(read) == <<"KeyError", read.value>>

\* mutant: the name is bound to the caller's object itself
no_copy(x) == [object |-> "same", contents |-> x]

\* x.copy(): a new object with the contents of x
copy(x) == [object |-> "new", contents |-> x]

\* the contents of the caller's object x after the call, when the callee has bound
\* a name to the object o and left it with the contents final
caller_object(x, o, final) == IF o.object = "same" THEN final ELSE x

\* ford_fulkerson from its entry to the end of the first construct_residual_graph
CallFordFulkerson ==
    /\ pc = "call_ff"
    /\ LET raised == first_raised(ff_reads(edges, capacities))
       IN IF raised # None
          THEN /\ result' = KeyError(raised)
               /\ pc' = "raised"
               /\ ff' = ff
          ELSE /\ ff' = FFEnter(edges, values_read(edges, capacities), source, sink,
                                search_method, init_flow)
               /\ pc' = "ff_loop"
               /\ result' = result
    /\ UNCHANGED <<nodes, edges, capacities, costs, supply, lower_bounds, upper_bounds,
                   source, sink, search_method, mf,
                   init_flow, mcf, run, previous>>

\* minimum_cost_flow from its entry to the end of the first construct_residual_graph
CallMinimumCostFlow ==
    /\ pc = "call_mcf"
    /\ LET raised == first_raised(mcf_reads(edges, capacities, costs))
       IN IF raised # None
          THEN /\ result' = KeyError(raised)
               /\ pc' = "raised"
               /\ mcf' = mcf
          ELSE /\ mcf' = MCFEnter(nodes, edges, values_read(edges, capacities),
                                  values_read(edges, costs), supply)
               /\ pc' = "mcf_loop"
               /\ result' = result
    /\ UNCHANGED <<nodes, edges, capacities, costs, supply, lower_bounds, upper_bounds,
                   source, sink, search_method, mf,
                   init_flow, ff, run, previous>>

\* minimum_flow from its entry to the end of the first residual graph construction:
\* in ford_fulkerson on G_prime, or in ford_fulkerson_min_flow when a flow was given
CallMinimumFlow ==
    /\ pc = "call_min"
    /\ LET raised == IF init_flow = <<>>
                     THEN first_raised(min_flow_reads(nodes, edges, lower_bounds, upper_bounds))
                     ELSE first_raised(residual_min_flow_reads(edges, lower_bounds,
                                                               upper_bounds))
           lower == values_read(edges, lower_bounds)
           upper == values_read(edges, upper_bounds)
       IN IF raised # None
          THEN /\ result' = KeyError(raised)
               /\ pc' = "raised"
               /\ ff' = ff
               /\ mf' = mf
          ELSE IF init_flow = <<>>
          THEN /\ ff' = FFEnter(min_flow_edges_prime(nodes, edges, source, sink),
                                min_flow_capacities(nodes, edges, lower, upper, source, sink),
                                "s_prime", "t_prime", search_method, None)
               /\ pc' = "min_ff_loop"
               /\ mf' = mf
               /\ result' = result
          ELSE /\ mf' = MinFlowEnter(edges, lower, upper, sink, source,
                                     search_method, init_flow)
               /\ pc' = "min_loop"
               /\ ff' = ff
               /\ result' = result
    /\ nodes' = IF init_flow = <<>>
                THEN caller_object(nodes, copy(nodes), nodes \o <<"s_prime", "t_prime">>)
                ELSE nodes
    /\ edges' = IF init_flow = <<>>
                THEN caller_object(edges, copy(edges),
                                   min_flow_edges_prime(nodes, edges, source, sink))
                ELSE edges
    /\ UNCHANGED <<capacities, costs, supply, lower_bounds, upper_bounds,
                   source, sink, search_method,
                   init_flow, mcf, run, previous>>

\* every map from some of the keys to the values
PartialMaps(keys, vals) == UNION {[S -> vals] : S \in SUBSET keys}

Complete(es, d) == \A e \in ToSet(es) : e \in DOMAIN d

\* ford_fulkerson(edges, capacities, "s", "t", search_method)
MissingFFInstance ==
    /\ pc = "call_ff"
    /\ capacities \in PartialMaps(ToSet(edges), 1..MaxCap)
    /\ search_method \in Methods
    /\ source = "s"
    /\ sink = "t"
    /\ costs = <<>>
    /\ supply = <<>>
    /\ lower_bounds = None
    /\ upper_bounds = None
    /\ init_flow = None

\* minimum_cost_flow(nodes, edges, capacities, costs, supply)
MissingMCFInstance ==
    /\ pc = "call_mcf"
    /\ capacities \in PartialMaps(ToSet(edges), 1..MaxCap)
    /\ costs \in PartialMaps(ToSet(edges), 0..MaxCost)
    /\ supply \in {[node \in ToSet(nodes) |->
                       IF node = "s" THEN x ELSE IF node = "t" THEN - x ELSE 0] :
                   x \in 0..MaxCap}
    /\ search_method = None
    /\ source = None
    /\ sink = None
    /\ lower_bounds = None
    /\ upper_bounds = None
    /\ init_flow = None

\* minimum_flow(nodes, edges, lower_bounds, upper_bounds, "s", "t", search_method,
\* feasible_flow): with complete bounds, every strategy and no flow or any flow within
\* the bounds; with an entry missing, bfs and no flow or the zero flow
MissingMinInstance ==
    /\ pc = "call_min"
    /\ lower_bounds \in PartialMaps(ToSet(edges), 0..MaxCap)
    /\ upper_bounds \in PartialMaps(ToSet(edges), 0..MaxCap)
    /\ \A e \in DOMAIN lower_bounds \cap DOMAIN upper_bounds : lower_bounds[e] <= upper_bounds[e]
    /\ IF Complete(edges, lower_bounds) /\ Complete(edges, upper_bounds)
       THEN /\ init_flow \in {None} \cup
                    BoundedFlows(nodes, edges, lower_bounds, upper_bounds, "s", "t")
            /\ search_method \in Methods
       ELSE /\ init_flow \in {None, [edge \in ToSet(edges) |-> 0]}
            /\ search_method = "bfs"
    /\ source = "s"
    /\ sink = "t"
    /\ capacities = <<>>
    /\ costs = <<>>
    /\ supply = <<>>

InitMissing ==
    /\ nodes = MinNodes
    /\ edges \in DistinctSeqs(Pairs(ToSet(MinNodes)), MaxEdges)
    /\ \/ MissingFFInstance
       \/ MissingMCFInstance
       \/ MissingMinInstance
    /\ ff = NoFrame
    /\ mcf = NoFrame
    /\ mf = NoFrame
    /\ run = 1
    /\ previous = <<>>
    /\ result = <<>>

NextMissing ==
    \/ CallFordFulkerson \/ FFIterate \/ FFReturn
    \/ CallMinimumCostFlow \/ MCFIterate \/ MCFReturn
    \/ CallMinimumFlow \/ MinFeasible \/ MinIterate \/ MinReturn

SpecMissing == InitMissing /\ [][NextMissing]_vars

\* C17: a call on an edge list with an edge that has no entry in the capacity map
\* (ford_fulkerson, minimum_cost_flow), in the cost map (minimum_cost_flow) or in the
\* lower or upper bound map (minimum_flow) ends in a KeyError for an edge: it does
\* not go on to compute a flow.
C17_MissingEntryFails ==
    [][((\/ pc = "call_ff" /\ ~ Complete(edges, capacities)
         \/ pc = "call_mcf" /\ ~ (Complete(edges, capacities) /\ Complete(edges, costs))
         \/ pc = "call_min" /\ ~ (Complete(edges, lower_bounds) /\ Complete(edges, upper_bounds)))
        => (pc' = "raised" /\ result'[1] = "KeyError" /\ result'[2] \in ToSet(edges)))]_vars

\* minimum_flow has raised KeyError for an edge that has a lower but no upper bound
C17_Witness ==
    /\ pc = "raised"
    /\ result # <<>>
    /\ result[1] = "KeyError"
    /\ edges # <<>>
    /\ Complete(edges, lower_bounds)
    /\ result[2] \notin DOMAIN upper_bounds
    /\ upper_bounds # <<>>

(***************************************************************************)
(* feasible_flow on edge lists with endpoints outside the node list.       *)
(***************************************************************************)
DeclaredNodes == <<"a", "b">>

\* the declared nodes and one more name
EdgeEndpoints == ToSet(DeclaredNodes) \cup {"x"}

\* every list of at most MaxEdges distinct edges over the declared nodes and x,
\* capacities 1..MaxCap, and every supply map of the declared nodes with values in
\* -MaxCap..MaxCap
InitUndeclared ==
    /\ nodes = DeclaredNodes
    /\ edges \in DistinctSeqs(Pairs(EdgeEndpoints), MaxEdges)
    /\ capacities \in [ToSet(edges) -> 1..MaxCap]
    /\ supply \in [ToSet(DeclaredNodes) -> (-MaxCap)..MaxCap]
    /\ search_method \in Methods
    /\ init_flow = None
    /\ source = None
    /\ sink = None
    /\ costs = <<>>
    /\ ff = NoFrame
    /\ mcf = NoFrame
    /\ mf = NoFrame
    /\ lower_bounds = None
    /\ upper_bounds = None
    /\ pc = "call_feas"
    /\ run = 1
    /\ previous = <<>>
    /\ result = <<>>

SpecUndeclared == InitUndeclared /\ [][NextFeas]_vars

\* C18: feasible_flow returns a result only when both endpoints of every edge are
\* in the node list; with an endpoint outside the list the call fails.
C18_UndeclaredNodeFails ==
    (pc = "done") => NodesOf(edges) \subseteq ToSet(nodes)

(***************************************************************************)
(* ford_fulkerson on edge lists that repeat an ordered pair.               *)
(***************************************************************************)
RECURSIVE AllSeqs(_, _)
AllSeqs(S, n) ==
    IF n = 0 THEN {<<>>}
    ELSE AllSeqs(S, n - 1) \cup {Append(q, x) : q \in AllSeqs(S, n - 1), x \in S}

\* every list of at most MaxEdges edges over three nodes, repeated edges included
InitDuplicate ==
    /\ edges \in AllSeqs(Pairs(ToSet(MinNodes)), MaxEdges)
    /\ capacities \in [ToSet(edges) -> 1..MaxCap]
    /\ init_flow = None
    /\ source = "s"
    /\ sink = "t"
    /\ search_method \in Methods
    /\ nodes = <<>>
    /\ costs = <<>>
    /\ supply = <<>>
    /\ ff = NoFrame
    /\ mcf = NoFrame
    /\ mf = NoFrame
    /\ lower_bounds = None
    /\ upper_bounds = None
    /\ pc = "call_ff"
    /\ run = 1
    /\ previous = <<>>
    /\ result = <<>>

SpecDuplicate == InitDuplicate /\ [][NextFF]_vars

\* the edge list with every repeated occurrence of an edge removed
RECURSIVE Deduplicated(_)
Deduplicated(es) ==
    IF es = <<>> THEN <<>>
    ELSE LET front == Deduplicated(SubSeq(es, 1, Len(es) - 1))
             last == es[Len(es)]
         IN IF last \in ToSet(front) THEN front ELSE Append(front, last)

\* C19: the flow and the value that ford_fulkerson returns for an edge list are
\* those it returns for the list with the repeated edges removed.
C19_DuplicateEdgeAsOnce ==
    (pc = "done" /\ run = 1) =>
        LET once == ford_fulkerson(Deduplicated(edges), capacities, source, sink,
                                   search_method, None)
        IN result = <<once[1], once[2]>>

(***************************************************************************)
(* feasible_flow with an initial flow on the edges of the graph.           *)
(***************************************************************************)
\* maximum_flow.py lines 30-31 with a given flow: capacities[(u, v)], then
\* flow[(u, v)], for each edge
flow_reads(es, caps, flow) ==
    [i \in 1..(2 * Len(es)) |->
        IF i % 2 = 1 THEN getitem(caps, es[(i + 1) \div 2]) ELSE getitem(flow, es[i \div 2])]

\* feasible_flow from its entry to the end of ford_fulkerson's first
\* construct_residual_graph on G_prime
CallFeasibleFlow ==
    /\ pc = "call_feas"
    /\ LET g == construct_g_prime(nodes, edges, capacities, supply)
           raised == IF init_flow = <<>> THEN None
                     ELSE first_raised(flow_reads(g.edges_prime, g.capacities_prime,
                                                  init_flow))
       IN IF raised # None
          THEN /\ result' = KeyError(raised)
               /\ pc' = "raised"
               /\ ff' = ff
          ELSE /\ ff' = FFEnter(g.edges_prime, g.capacities_prime, "s_prime", "t_prime",
                                search_method, init_flow)
               /\ pc' = "feas_ff_loop"
               /\ result' = result
    /\ LET g == construct_g_prime(nodes, edges, capacities, supply)
       IN /\ edges' = caller_object(edges, copy(edges), g.edges_prime)
          /\ capacities' = caller_object(capacities, copy(capacities), g.capacities_prime)
    /\ UNCHANGED <<nodes, costs, supply, lower_bounds, upper_bounds,
                   source, sink, search_method, mf,
                   init_flow, mcf, run, previous>>

\* every list of at most MaxEdges distinct edges over three nodes, capacities
\* 1..MaxCap, every supply map with values in -MaxCap..MaxCap, and no initial flow
\* or any flow on the edges that is within the capacities
InitInitialFlow ==
    /\ nodes = FeasNodes
    /\ edges \in DistinctSeqs(Pairs(ToSet(FeasNodes)), MaxEdges)
    /\ capacities \in [ToSet(edges) -> 1..MaxCap]
    /\ supply \in [ToSet(FeasNodes) -> (-MaxCap)..MaxCap]
    /\ init_flow \in {None} \cup {f \in [ToSet(edges) -> 0..MaxCap] :
                                     \A e \in ToSet(edges) : f[e] <= capacities[e]}
    /\ search_method \in Methods
    /\ source = None
    /\ sink = None
    /\ costs = <<>>
    /\ ff = NoFrame
    /\ mcf = NoFrame
    /\ mf = NoFrame
    /\ lower_bounds = None
    /\ upper_bounds = None
    /\ pc = "call_feas"
    /\ run = 1
    /\ previous = <<>>
    /\ result = <<>>

NextInitialFlow == CallFeasibleFlow \/ FFIterate \/ FeasReturn

SpecInitialFlow == InitInitialFlow /\ [][NextInitialFlow]_vars

\* C20: a call of feasible_flow with some non-zero supply and an initial flow on
\* the edges of the graph does not fail: it goes on to the search for a flow.
C20_InitialFlowAccepted ==
    ((\E i \in DOMAIN nodes : supply[nodes[i]] # 0) /\ init_flow # None) => pc # "raised"

(***************************************************************************)
(* The four searches as functions of a residual graph.                     *)
(***************************************************************************)
MaxResidual == 2

MaxSearchEdges == 4

SearchNodes == <<"s", "a", "b", "t">>

\* the pairs that can lie on a simple path from s to t
SearchPairs ==
    {e \in Pairs(ToSet(SearchNodes)) : e[2] # "s" /\ e[1] # "t"}

\* every list of at most MaxSearchEdges distinct residual edges, with residual
\* capacities in 0..MaxResidual or float("inf")
InitSearch ==
    /\ edges \in DistinctSeqs(SearchPairs, MaxSearchEdges)
    /\ capacities \in [ToSet(edges) -> (0..MaxResidual) \cup {Inf}]
    /\ source = "s"
    /\ sink = "t"
    /\ search_method \in Methods
    /\ nodes = <<>>
    /\ costs = <<>>
    /\ supply = <<>>
    /\ init_flow = None
    /\ ff = NoFrame
    /\ mcf = NoFrame
    /\ mf = NoFrame
    /\ lower_bounds = None
    /\ upper_bounds = None
    /\ pc = "call_search"
    /\ run = 1
    /\ previous = <<>>
    /\ result = <<>>

\* search_method(residual_edges, residual_capacities, source, sink)
SearchCall ==
    /\ pc = "call_search"
    /\ result' = search(search_method, edges, capacities, source, sink)
    /\ pc' = "done"
    /\ UNCHANGED <<nodes, edges, capacities, costs, supply, lower_bounds, upper_bounds,
                   source, sink, search_method, mf,
                   init_flow, ff, mcf, run, previous>>

SpecSearch == InitSearch /\ [][SearchCall]_vars

\* the node sequences without repetition that lead from s to t
SimplePaths ==
    {p \in UNION {[1..k -> ToSet(SearchNodes)] : k \in 2..Len(SearchNodes)} :
        /\ p[1] = "s"
        /\ p[Len(p)] = "t"
        /\ \A i \in DOMAIN p : \A j \in DOMAIN p : i # j => p[i] # p[j]}

\* the simple paths from s to t along edges of es with positive residual capacity
PositivePaths(es, rc) ==
    {p \in SimplePaths :
        \A i \in 1..(Len(p) - 1) : /\ <<p[i], p[i + 1]>> \in ToSet(es)
                                   /\ rc[<<p[i], p[i + 1]>>] > 0}

\* C21: each of the four searches returns a simple path from source to sink along
\* edges of positive residual capacity whenever there is one, and None only
\* when there is none.
C21_SearchFindsPath ==
    (pc = "done") =>
        IF PositivePaths(edges, capacities) = {}
        THEN result = None
        ELSE result \in PositivePaths(edges, capacities)

\* C22: when find_augmenting_path_bfs returns a path, no path from source to sink
\* along edges of positive residual capacity has fewer edges.
C22_BfsFewestEdges ==
    (pc = "done" /\ search_method = "bfs" /\ result # None) =>
        \A p \in PositivePaths(edges, capacities) : Len(result) <= Len(p)

\* bfs has returned a path of two edges although a path of three edges is listed
\* before it in the residual edge list
C22_Witness ==
    /\ pc = "done"
    /\ search_method = "bfs"
    /\ result = <<"s", "b", "t">>
    /\ <<"s", "a", "b", "t">> \in PositivePaths(edges, capacities)
    /\ edges[1] = <<"s", "a">>

\* the least residual capacity along p
Bottleneck(rc, p) ==
    LET on_path == {rc[<<p[i], p[i + 1]>>] : i \in 1..(Len(p) - 1)}
    IN CHOOSE m \in on_path : \A c \in on_path : m <= c

EdgeIndex(es, e) == CHOOSE i \in DOMAIN es : es[i] = e

\* p is enumerated before q: it is shorter, or as long and at the first node where
\* they part its edge comes earlier in the residual edge list
EnumeratedBefore(es, p, q) ==
    \/ Len(p) < Len(q)
    \/ /\ Len(p) = Len(q)
       /\ \E i \in 2..Len(p) :
             /\ \A j \in 1..(i - 1) : p[j] = q[j]
             /\ p[i] # q[i]
             /\ EdgeIndex(es, <<p[i - 1], p[i]>>) < EdgeIndex(es, <<q[i - 1], q[i]>>)

\* C23: find_augmenting_path_max returns a simple path of positive residual
\* capacity whose bottleneck is the largest of all such paths, and of the paths
\* with that bottleneck the one that is enumerated first.
C23_MaxBottleneckFirst ==
    (pc = "done" /\ search_method = "max" /\ PositivePaths(edges, capacities) # {}) =>
        /\ result \in PositivePaths(edges, capacities)
        /\ \A q \in PositivePaths(edges, capacities) :
              /\ Bottleneck(capacities, q) <= Bottleneck(capacities, result)
              /\ (Bottleneck(capacities, q) = Bottleneck(capacities, result) /\ q # result)
                     => EnumeratedBefore(edges, result, q)

\* max has returned the first of two paths of equal length and equal bottleneck
C23_Witness ==
    /\ pc = "done"
    /\ search_method = "max"
    /\ result = <<"s", "b", "t">>
    /\ <<"s", "a", "t">> \in PositivePaths(edges, capacities)
    /\ Bottleneck(capacities, <<"s", "a", "t">>) = Bottleneck(capacities, result)

(***************************************************************************)
(* The residual graph constructions as functions of a flow.                *)
(***************************************************************************)
\* construct_residual_graph(edges, capacities, flow): every list of at most
\* MaxEdges distinct edges over three nodes, capacities 1..MaxCap and every flow
\* within the capacities
ResidualInstance ==
    /\ pc = "call_residual"
    /\ capacities \in [ToSet(edges) -> 1..MaxCap]
    /\ init_flow \in {f \in [ToSet(edges) -> 0..MaxCap] :
                         \A e \in ToSet(edges) : f[e] <= capacities[e]}
    /\ lower_bounds = None
    /\ upper_bounds = None

\* construct_residual_graph_min_flow(edges, lower_bounds, upper_bounds, flow): bounds
\* with 0 <= lower <= upper <= MaxCap and every flow within the bounds
ResidualMinInstance ==
    /\ pc = "call_residual_min"
    /\ upper_bounds \in [ToSet(edges) -> 0..MaxCap]
    /\ lower_bounds \in [ToSet(edges) -> 0..MaxCap]
    /\ init_flow \in {f \in [ToSet(edges) -> 0..MaxCap] :
                         \A e \in ToSet(edges) : lower_bounds[e] <= f[e]
                                                 /\ f[e] <= upper_bounds[e]}
    /\ capacities = <<>>

InitResidual ==
    /\ edges \in DistinctSeqs(Pairs(ToSet(MinNodes)), MaxEdges)
    /\ \/ ResidualInstance
       \/ ResidualMinInstance
    /\ source = None
    /\ sink = None
    /\ search_method = None
    /\ nodes = <<>>
    /\ costs = <<>>
    /\ supply = <<>>
    /\ ff = NoFrame
    /\ mcf = NoFrame
    /\ mf = NoFrame
    /\ run = 1
    /\ previous = <<>>
    /\ result = <<>>

\* maximum_flow.py lines 29-33
ResidualCall ==
    /\ pc = "call_residual"
    /\ result' = construct_residual_graph(edges, capacities, init_flow)
    /\ pc' = "done"
    /\ UNCHANGED <<nodes, edges, capacities, costs, supply, lower_bounds, upper_bounds,
                   source, sink, search_method, mf,
                   init_flow, ff, mcf, run, previous>>

\* minimum_flow.py lines 35-39
ResidualMinCall ==
    /\ pc = "call_residual_min"
    /\ result' = construct_residual_graph_min_flow(edges, lower_bounds, upper_bounds,
                                                   init_flow)
    /\ pc' = "done"
    /\ UNCHANGED <<nodes, edges, capacities, costs, supply, lower_bounds, upper_bounds,
                   source, sink, search_method, mf,
                   init_flow, ff, mcf, run, previous>>

NextResidual == ResidualCall \/ ResidualMinCall

SpecResidual == InitResidual /\ [][NextResidual]_vars

\* C24: for each edge (u, v) of the list the residual graph has the forward entry
\* capacity - flow at (u, v) and the backward entry flow at (v, u); with bounds the
\* entries are upper - flow and flow - lower.
C24_ResidualEntries ==
    (pc = "done") =>
        \A e \in ToSet(edges) :
            IF upper_bounds = None
            THEN /\ result.val[e] = capacities[e] - init_flow[e]
                 /\ result.val[<<e[2], e[1]>>] = init_flow[e]
            ELSE /\ result.val[e] = upper_bounds[e] - init_flow[e]
                 /\ result.val[<<e[2], e[1]>>] = init_flow[e] - lower_bounds[e]

(***************************************************************************)
(* The caller's objects across a call.  The variables nodes, edges,        *)
(* capacities, costs, supply, lower_bounds, upper_bounds and init_flow are *)
(* the objects that the caller hands to the solver; previous holds their   *)
(* contents before the call.                                               *)
(***************************************************************************)
\* a parameter names the caller's object itself
argument(x) == [object |-> "same", contents |-> x]

\* maximum_flow.py lines 257-260: flow names the caller's dict, unless "not flow"
\* has bound it to a new dict
flow_object(es, flow) ==
    IF flow = <<>> THEN [object |-> "new", contents |-> [e \in ToSet(es) |-> 0]]
                   ELSE argument(flow)

\* maximum_flow.py line 293, with the flow that the augmentations (lines 276-280)
\* have left in the dict that flow names
ReturnFordFulkerson ==
    /\ pc = "ff_loop"
    /\ ff.augmenting_path_nodes = None
    /\ result' = <<ff.flow, calculate_flow_value(ff.flow, ff.source)>>
    /\ init_flow' = caller_object(init_flow, flow_object(edges, init_flow), ff.flow)
    /\ pc' = "done"
    /\ UNCHANGED <<nodes, edges, capacities, costs, supply, lower_bounds, upper_bounds,
                   source, sink, search_method, mf,
                   ff, mcf, run, previous>>

\* ford_fulkerson(edges, capacities, "s", "t", search_method, flow)
FrameFFInstance ==
    /\ pc = "call_ff"
    /\ nodes = MinNodes
    /\ edges \in DistinctSeqs(Pairs(ToSet(MinNodes)), MaxEdges)
    /\ capacities \in [ToSet(edges) -> 1..MaxCap]
    /\ init_flow \in {None} \cup
           {f \in [ToSet(edges) -> 0..MaxCap] :
               /\ \A e \in ToSet(edges) : f[e] <= capacities[e]
               /\ net_outgoing_flow(edges, f, "a") = 0}
    /\ search_method \in Methods
    /\ source = "s"
    /\ sink = "t"
    /\ costs = <<>>
    /\ supply = <<>>
    /\ lower_bounds = None
    /\ upper_bounds = None

\* feasible_flow(nodes, edges, capacities, supply, search_method, flow)
FrameFeasInstance ==
    /\ pc = "call_feas"
    /\ nodes = FeasNodes
    /\ edges \in DistinctSeqs(Pairs(ToSet(FeasNodes)), MaxEdges)
    /\ capacities \in [ToSet(edges) -> 1..MaxCap]
    /\ supply \in [ToSet(FeasNodes) -> (-MaxCap)..MaxCap]
    /\ init_flow \in {None} \cup {f \in [ToSet(edges) -> 0..MaxCap] :
                                     \A e \in ToSet(edges) : f[e] <= capacities[e]}
    /\ search_method \in {"bfs", "max"}
    /\ source = None
    /\ sink = None
    /\ costs = <<>>
    /\ lower_bounds = None
    /\ upper_bounds = None

\* minimum_cost_flow(nodes, edges, capacities, costs, supply)
FrameMCFInstance ==
    /\ pc = "call_mcf"
    /\ TinyMcfInstance
    /\ init_flow = None
    /\ search_method = None
    /\ source = None
    /\ sink = None
    /\ lower_bounds = None
    /\ upper_bounds = None

\* minimum_flow(nodes, edges, lower_bounds, upper_bounds, "s", "t", search_method,
\* feasible_flow)
FrameMinInstance ==
    /\ pc = "call_min"
    /\ TinyMinInstance
    /\ search_method \in {"bfs", "max"}
    /\ source = "s"
    /\ sink = "t"
    /\ capacities = <<>>
    /\ costs = <<>>
    /\ supply = <<>>

InitFrame ==
    /\ \/ FrameFFInstance
       \/ FrameFeasInstance
       \/ FrameMCFInstance
       \/ FrameMinInstance
    /\ previous = [nodes |-> nodes, edges |-> edges, capacities |-> capacities,
                   costs |-> costs, supply |-> supply, lower_bounds |-> lower_bounds,
                   upper_bounds |-> upper_bounds, flow |-> init_flow, call |-> pc]
    /\ ff = NoFrame
    /\ mcf = NoFrame
    /\ mf = NoFrame
    /\ run = 1
    /\ result = <<>>

NextFrame ==
    \/ CallFordFulkerson \/ FFIterate \/ ReturnFordFulkerson
    \/ CallFeasibleFlow \/ FeasReturn
    \/ CallMinimumCostFlow \/ MCFIterate \/ MCFReturn
    \/ CallMinimumFlow \/ MinFeasible \/ MinIterate \/ MinReturn

SpecFrame == InitFrame /\ [][NextFrame]_vars

\* C25: a solve leaves the caller's node list, edge list and capacity, cost, supply
\* and bound maps as they were; a flow map that the caller supplied holds, after
\* ford_fulkerson or minimum_flow has returned, the returned flow, and None stays
\* None.
C25_CallerObjects ==
    /\ nodes = previous.nodes
    /\ edges = previous.edges
    /\ capacities = previous.capacities
    /\ costs = previous.costs
    /\ supply = previous.supply
    /\ lower_bounds = previous.lower_bounds
    /\ upper_bounds = previous.upper_bounds
    /\ (previous.flow = None \/ previous.call \in {"call_feas", "call_mcf"})
           => init_flow = previous.flow
    /\ (pc = "done" /\ previous.flow # None /\ previous.call \in {"call_ff", "call_min"})
           => init_flow = result[1]

\* ford_fulkerson has returned a flow that differs from the flow it was given
C25_Witness ==
    /\ pc = "done"
    /\ previous.call = "call_ff"
    /\ previous.flow # None
    /\ init_flow # previous.flow
    /\ result[2] > 0

(***************************************************************************)
(* Termination of ford_fulkerson from the zero flow: every graph of at     *)
(* most MaxTermEdges edges over three nodes, capacities 0..MaxTermCap,     *)
(* every source, every sink (the source included) and every search.        *)
(***************************************************************************)
MaxTermEdges == 3
MaxTermCap == 2
MaxAugmentations == 8

InitTermination ==
    /\ edges \in DistinctSeqs(Pairs(FFNodes), MaxTermEdges)
    /\ capacities \in [ToSet(edges) -> 0..MaxTermCap]
    /\ source \in FFNodes
    /\ sink \in FFNodes
    /\ search_method \in Methods
    /\ init_flow = None
    /\ nodes = <<>>
    /\ costs = <<>>
    /\ supply = <<>>
    /\ ff = NoFrame
    /\ mcf = NoFrame
    /\ mf = NoFrame
    /\ lower_bounds = None
    /\ upper_bounds = None
    /\ pc = "call_ff"
    /\ run = 2
    /\ previous = <<>>
    /\ result = <<>>

\* lines 268-290: one iteration of the while loop; the iteration counter, which
\* only the debug output reads, stops counting at MaxAugmentations
Augmentation ==
    /\ pc = "ff_loop"
    /\ ff.augmenting_path_nodes # None
    /\ LET f == augment(ff.edges, ff.capacities, ff.flow, ff.augmenting_path_nodes)
       IN ff' = [ff EXCEPT !.flow = f,
                           !.counter = IF @ < MaxAugmentations THEN @ + 1 ELSE @,
                           !.augmenting_path_nodes =
                               find_path(ff.edges, ff.capacities, ff.source, ff.sink,
                                         search_method, f)]
    /\ UNCHANGED <<nodes, edges, capacities, costs, supply, lower_bounds, upper_bounds,
                   source, sink, search_method, mf,
                   init_flow, mcf, pc, run, previous, result>>

NextTermination == FFCall \/ Augmentation \/ FFReturn

\* the interpreter keeps executing the loop: a step that can be taken is taken
SpecTermination ==
    InitTermination /\ [][NextTermination]_vars /\ WF_vars(NextTermination)

\* C26: started from the zero flow, ford_fulkerson performs finitely many
\* augmentations and returns, for every graph with non-negative integer
\* capacities, every source and sink and each of the four searches.  The loop
\* is deterministic in the flow and the path found, so an iteration that
\* leaves both as they were is repeated for ever: a call that returns has no
\* such iteration.
C26_NoIterationRepeats ==
    [][Augmentation => (ff'.flow # ff.flow
                        \/ ff'.augmenting_path_nodes # ff.augmenting_path_nodes)]_vars

\* between different nodes the loop is left before the counter stops counting
C26_ReturnsWhenSourceIsNotSink ==
    (source # sink /\ pc = "ff_loop") => ff.counter < MaxAugmentations

(***************************************************************************)
(* One iteration of ford_fulkerson's loop.                                 *)
(***************************************************************************)
\* the bottleneck of the path the iteration uses (line 273)
IterationCapacity ==
    calculate_path_capacity(construct_residual_graph(ff.edges, ff.capacities, ff.flow).val,
                            get_path_edges(ff.augmenting_path_nodes))

\* the change of flow(u, v) that lines 277-280 are claimed to make
ClaimedChange(e, path_edges, c) ==
    (IF Contains(path_edges, e) THEN c ELSE 0)
        - (IF Contains(path_edges, <<e[2], e[1]>>) THEN c ELSE 0)

IterationKeepsFlow ==
    LET path_edges == get_path_edges(ff.augmenting_path_nodes)
        c == IterationCapacity
    IN /\ c > 0
       /\ \A e \in ToSet(ff.edges) :
             ff'.flow[e] = ff.flow[e] + ClaimedChange(e, path_edges, c)
       /\ RespectsCapacities(ff.edges, ff.capacities, ff'.flow)
       /\ Conserves(ff.edges, ff'.flow, ff.source, ff.sink)
       /\ NetOut(ff.edges, ff'.flow, ff.source) = NetOut(ff.edges, ff.flow, ff.source) + c

\* C27: in every iteration of ford_fulkerson's loop the bottleneck is positive,
\* the augmentation adds it on the path's original edges and subtracts it on
\* the original edges whose reverse is on the path, the new flow meets the
\* capacity bounds and conservation, and the net flow out of the source has
\* grown by exactly the bottleneck.
C27_IterationKeepsFlow == [][FFIterate => IterationKeepsFlow]_vars

\* the same, for edge lists that hold no edge together with its reverse
C27_IterationKeepsFlowOneWay ==
    [][(FFIterate /\ \A e \in ToSet(edges) : ~ Contains(edges, <<e[2], e[1]>>))
          => IterationKeepsFlow]_vars

(***************************************************************************)
(* Termination of minimum_cost_flow: every edge list of at most            *)
(* MaxLoopEdges edges over three nodes, capacities 1..MaxLoopCap, costs    *)
(* 0..MaxLoopCost and supplies -MaxLoopSupply..MaxLoopSupply.              *)
(***************************************************************************)
MaxLoopEdges == 3
MaxLoopCap == 2
MaxLoopCost == 1
MaxLoopSupply == 1

LoopNodes == <<"a", "b", "c">>

InitLoop ==
    /\ nodes = LoopNodes
    /\ edges \in DistinctSeqs(Pairs(ToSet(LoopNodes)), MaxLoopEdges)
    /\ capacities \in [ToSet(edges) -> 1..MaxLoopCap]
    /\ costs \in [ToSet(edges) -> 0..MaxLoopCost]
    /\ supply \in [ToSet(LoopNodes) -> (-MaxLoopSupply)..MaxLoopSupply]
    /\ search_method = None
    /\ init_flow = None
    /\ source = None
    /\ sink = None
    /\ ff = NoFrame
    /\ mcf = NoFrame
    /\ mf = NoFrame
    /\ lower_bounds = None
    /\ upper_bounds = None
    /\ pc = "call_mcf"
    /\ run = 1
    /\ previous = <<>>
    /\ result = <<>>

SpecLoop == InitLoop /\ [][NextMCF]_vars

\* lines 118-138: what an iteration chooses on the frame st: the supply node,
\* and, when a residual demand node is in the tree, that node, the tree path
\* to it and the three amounts whose minimum is sent
mcf_choice(ns, es, caps, cs, sup, st) ==
    LET g == mcf_construct_residual_graph(ns, es, caps, cs, sup, st.flow)
        supply_node == Head(st.residual_supply_nodes)
        bf == bellman_ford(ns, g.residual_edges, g.residual_costs, supply_node)
        residual_demand_nodes ==
            SelectSeq(ns, LAMBDA node : /\ g.residual_supply[node] < 0
                                        /\ bf.parents[node] # NoNode)
    IN IF residual_demand_nodes = <<>>
       THEN [found |-> FALSE, supply_node |-> supply_node]
       ELSE LET demand_node == residual_demand_nodes[1]
                augmenting_path_edges == mcf_augmenting_path_edges(bf.parents, demand_node)
            IN [found |-> TRUE,
                supply_node |-> supply_node,
                demand_node |-> demand_node,
                augmenting_path_edges |-> augmenting_path_edges,
                residual_supply |-> g.residual_supply[supply_node],
                residual_demand |-> - g.residual_supply[demand_node],
                path_capacity |-> calculate_path_capacity(g.residual_capacities,
                                                          augmenting_path_edges),
                augmenting_path_capacity |->
                    min3(g.residual_supply[supply_node],
                         - g.residual_supply[demand_node],
                         calculate_path_capacity(g.residual_capacities,
                                                 augmenting_path_edges))]

\* the path is a chain of edges from node u to node v
PathFromTo(path_edges, u, v) ==
    /\ path_edges # <<>>
    /\ path_edges[1][1] = u
    /\ path_edges[Len(path_edges)][2] = v
    /\ \A i \in 1..(Len(path_edges) - 1) : path_edges[i][2] = path_edges[i + 1][1]

IterationProgress ==
    LET ch == mcf_choice(nodes, edges, capacities, costs, supply, mcf)
    IN \/ /\ ~ ch.found
          /\ mcf'.residual_supply_nodes = remove(mcf.residual_supply_nodes, ch.supply_node)
          /\ mcf'.flow = mcf.flow
       \/ /\ ch.found
          /\ ch.augmenting_path_capacity >= 1
          /\ PathFromTo(ch.augmenting_path_edges, ch.supply_node, ch.demand_node)
          /\ ch.residual_demand > 0
          /\ \A e \in ToSet(edges) :
                mcf'.flow[e] = mcf.flow[e] + ClaimedChange(e, ch.augmenting_path_edges,
                                                           ch.augmenting_path_capacity)

\* C28: when no cycle has a negative cost, each iteration of minimum_cost_flow's
\* loop either augments by at least 1 along a path from the chosen supply node
\* to a residual-demand node or removes the chosen supply node from the active
\* list; this is the progress by which the list becomes empty and the call ends.
C28_IterationProgress ==
    [][(MCFIterate /\ ~ mcf'.raised /\ NoNegativeCycle(nodes, edges, costs))
          => IterationProgress]_vars

\* the same, for edge lists that hold no edge together with its reverse
C28_IterationProgressOneWay ==
    [][(/\ MCFIterate
        /\ ~ mcf'.raised
        /\ NoNegativeCycle(nodes, edges, costs)
        /\ \A e \in ToSet(edges) : ~ Contains(edges, <<e[2], e[1]>>))
          => IterationProgress]_vars

(***************************************************************************)
(* One augmentation of minimum_cost_flow.                                  *)
(***************************************************************************)
Smallest(x, y, z) == CHOOSE m \in {x, y, z} : m <= x /\ m <= y /\ m <= z

\* the residual supplies of the flow f (lines 55-60)
ResidualSupply(f) ==
    mcf_construct_residual_graph(nodes, edges, capacities, costs, supply, f).residual_supply

AugmentationKeepsSigns ==
    LET ch == mcf_choice(nodes, edges, capacities, costs, supply, mcf)
    IN ch.found =>
          /\ ch.augmenting_path_capacity
                 = Smallest(ch.residual_supply, ch.residual_demand, ch.path_capacity)
          /\ \A e \in ToSet(edges) :
                mcf'.flow[e] = mcf.flow[e] + ClaimedChange(e, ch.augmenting_path_edges,
                                                           ch.augmenting_path_capacity)
          /\ \A i \in DOMAIN nodes :
                /\ supply[nodes[i]] > 0 => ResidualSupply(mcf'.flow)[nodes[i]] >= 0
                /\ supply[nodes[i]] < 0 => ResidualSupply(mcf'.flow)[nodes[i]] <= 0
                /\ supply[nodes[i]] = 0 => ResidualSupply(mcf'.flow)[nodes[i]] = 0
          /\ RespectsCapacities(edges, capacities, mcf'.flow)

\* C29: every augmentation amount of minimum_cost_flow is the minimum of the
\* supply node's residual supply, the magnitude of the demand node's residual
\* demand and the path's residual capacity, and after every augmentation the
\* residual supply is >= 0 at nodes of positive supply, <= 0 at nodes of
\* negative supply and 0 at transshipment nodes, with 0 <= flow(e) <= capacity(e)
\* on every edge.
C29_AugmentationKeepsSigns ==
    [][(MCFIterate /\ ~ mcf'.raised) => AugmentationKeepsSigns]_vars

\* the same, for edge lists that hold no edge together with its reverse
C29_AugmentationKeepsSignsOneWay ==
    [][(/\ MCFIterate
        /\ ~ mcf'.raised
        /\ \A e \in ToSet(edges) : ~ Contains(edges, <<e[2], e[1]>>))
          => AugmentationKeepsSigns]_vars

(***************************************************************************)
(* shortest_path.py: bellman_ford_fifo, dijkstra, johnson                  *)
(* check_tree_and_cycles.py: has_cycles                                    *)
(***************************************************************************)
\* util.py line 18
get_outgoing_edges(node, es) == SelectSeq(es, LAMBDA e : e[1] = node)

\* nodes.index(node)
index(ns, node) ==
    CHOOSE i \in DOMAIN ns : ns[i] = node /\ \A j \in 1..(i - 1) : ns[j] # node

\* check_tree_and_cycles.py lines 22-23
get_parent(node, ns, parents) == parents[index(ns, node)]

\* check_tree_and_cycles.py lines 112-120: one iteration of the inner while loop
has_cycles_walk(ns, parents, start_node, st) ==
    LET checked == [st.checked EXCEPT ![st.current_node_index] = start_node]
        parent == get_parent(st.current_node, ns, parents)
    IN [checked |-> checked,
        current_node |-> parent,
        current_node_index |-> IF parent # NoNode THEN index(ns, parent)
                               ELSE st.current_node_index]

\* check_tree_and_cycles.py lines 105-122: one iteration of the outer for loop
has_cycles_body(ns, parents, st) ==
    LET start_node == ns[st.start_node_index]
        w == run_loop(LAMBDA t : has_cycles_walk(ns, parents, start_node, t),
                      LAMBDA t : t.current_node = NoNode
                                     \/ t.checked[t.current_node_index] # NoNode,
                      [checked |-> st.checked,
                       current_node |-> start_node,
                       current_node_index |-> st.start_node_index])
    IN [start_node_index |-> st.start_node_index + 1,
        checked |-> w.checked,
        returned |-> w.current_node # NoNode
                         /\ w.checked[w.current_node_index] = start_node]

\* check_tree_and_cycles.py lines 101-123
has_cycles(ns, parents) ==
    run_loop(LAMBDA st : has_cycles_body(ns, parents, st),
             LAMBDA st : st.returned \/ st.start_node_index > Len(ns),
             [start_node_index |-> 1,
              checked |-> [i \in DOMAIN ns |-> NoNode],
              returned |-> FALSE]).returned

\* lines 76-80 (relax_bellman_ford_fifo), on the i-th outgoing edge
fifo_relax(out, weights, st) ==
    LET u == out[st.i][1]
        v == out[st.i][2]
    IN IF st.distances[v] > plus(st.distances[u], weights[<<u, v>>])
       THEN [i |-> st.i + 1,
             parents |-> [st.parents EXCEPT ![v] = u],
             distances |-> [st.distances EXCEPT
                                ![v] = plus(st.distances[u], weights[<<u, v>>])],
             active |-> IF Contains(st.active, v) THEN st.active
                        ELSE Append(st.active, v)]
       ELSE [st EXCEPT !.i = @ + 1]

\* lines 246-258: one iteration of "while (not active.empty())"
fifo_body(ns, es, weights, st) ==
    LET u == Head(st.active)
        out == get_outgoing_edges(u, es)
        r == run_loop(LAMBDA t : fifo_relax(out, weights, t),
                      LAMBDA t : t.i > Len(out),
                      [i |-> 1, parents |-> st.parents, distances |-> st.distances,
                       active |-> Tail(st.active)])
        parents_array == [i \in DOMAIN ns |-> r.parents[ns[i]]]
    IN [parents |-> r.parents,
        distances |-> r.distances,
        active |-> r.active,
        cycle |-> has_cycles(ns, parents_array)]

\* lines 238-260: [parents, distances], both None when the parents hold a cycle
bellman_ford_fifo(ns, es, weights, s) ==
    LET init == initialise(ns, s)
        st == run_loop(LAMBDA t : fifo_body(ns, es, weights, t),
                       LAMBDA t : t.cycle \/ t.active = <<>>,
                       [parents |-> init.parents, distances |-> init.distances,
                        active |-> <<s>>, cycle |-> FALSE])
    IN IF st.cycle
       THEN [parents |-> None, distances |-> None]
       ELSE [parents |-> st.parents, distances |-> st.distances]

\* the order of Python's str comparison on the node names in use
StringOrder == <<"a", "b", "c", "s", "u", "v", "x", "y">>

\* (d1, n1) < (d2, n2) on heap entries
heap_less(x, y) ==
    \/ x[1] < y[1]
    \/ /\ x[1] = y[1]
       /\ index(StringOrder, x[2]) < index(StringOrder, y[2])

\* hq.heappop(heap): the least entry; the heap is the set of its entries
heappop(heap) == CHOOSE x \in heap : \A y \in heap \ {x} : heap_less(x, y)

\* lines 106-112 (relax_dijkstra), on the i-th outgoing edge; heap.remove raises
\* ValueError when the entry is not in the heap
dijkstra_relax(out, weights, st) ==
    LET u == out[st.i][1]
        v == out[st.i][2]
    IN IF st.distances[v] > plus(st.distances[u], weights[<<u, v>>])
       THEN IF <<st.distances[v], v>> \notin st.heap
            THEN [st EXCEPT !.raised = TRUE]
            ELSE [i |-> st.i + 1,
                  parents |-> [st.parents EXCEPT ![v] = u],
                  distances |-> [st.distances EXCEPT
                                     ![v] = plus(st.distances[u], weights[<<u, v>>])],
                  heap |-> (st.heap \ {<<st.distances[v], v>>})
                               \cup {<<plus(st.distances[u], weights[<<u, v>>]), v>>},
                  raised |-> FALSE]
       ELSE [st EXCEPT !.i = @ + 1]

\* lines 301-308: one iteration of "while (heap)"
dijkstra_body(es, weights, st) ==
    LET entry == heappop(st.heap)
        out == get_outgoing_edges(entry[2], es)
    IN [run_loop(LAMBDA t : dijkstra_relax(out, weights, t),
                 LAMBDA t : t.raised \/ t.i > Len(out),
                 [i |-> 1, parents |-> st.parents, distances |-> st.distances,
                  heap |-> st.heap \ {entry}, raised |-> FALSE])
        EXCEPT !.i = 0]

\* lines 290-310: [parents, distances, raised]
dijkstra(ns, es, weights, s) ==
    LET init == initialise(ns, s)
        st == run_loop(LAMBDA t : dijkstra_body(es, weights, t),
                       LAMBDA t : t.raised \/ t.heap = {},
                       [i |-> 0, parents |-> init.parents, distances |-> init.distances,
                        heap |-> {<<IF ns[i] = s THEN 0 ELSE Inf, ns[i]>> : i \in DOMAIN ns},
                        raised |-> FALSE])
    IN [parents |-> st.parents, distances |-> st.distances, raised |-> st.raised]

\* mutant: the distance in the reweighted graph is returned as it is
johnson_distance_unadjusted(distance_prime, h_source, h_node) == distance_prime

\* line 412: distances_prime[node] - h_values[source_node] + h_values[node]
johnson_distance(distance_prime, h_source, h_node) ==
    plus(minus(distance_prime, h_source), h_node)

\* lines 391-416: [returned_none, raised, distances]; distances is keyed by
\* (source_node, node)
johnson(ns, es, weights) ==
    LET nodes_prime == Append(ns, "s_prime")
        edges_prime == es \o [i \in DOMAIN ns |-> <<"s_prime", ns[i]>>]
        weights_prime == [e \in {<<"s_prime", ns[i]>> : i \in DOMAIN ns} |-> 0] @@ weights
        h_values == bellman_ford(nodes_prime, edges_prime, weights_prime,
                                 "s_prime").distances
        weights_hat == [e \in ToSet(es) |-> weights[e] + h_values[e[1]] - h_values[e[2]]]
        rows == [source_node \in ToSet(ns) |-> dijkstra(ns, es, weights_hat, source_node)]
    IN IF h_values = None
       THEN [returned_none |-> TRUE, raised |-> FALSE, distances |-> None]
       ELSE IF \E source_node \in ToSet(ns) : rows[source_node].raised
       THEN [returned_none |-> FALSE, raised |-> TRUE, distances |-> None]
       ELSE [returned_none |-> FALSE, raised |-> FALSE,
             distances |->
                 [p \in ToSet(ns) \X ToSet(ns) |->
                     johnson_distance(rows[p[1]].distances[p[2]],
                                      h_values[p[1]], h_values[p[2]])]]

(***************************************************************************)
(* Callers of the shortest-path functions: bellman_ford from every node,   *)
(* then one of bellman_ford_fifo, dijkstra and johnson, as in __main__.    *)
(* The weights are held in costs.                                          *)
(***************************************************************************)
MaxPathEdges == 3
MaxWeight == 1

PathNodeLists == {<<"a", "b", "c">>, <<"c", "a", "b">>}

\* Week 1 LGT Questions 3 and 4, Week 2 LGT Question 1
Week1LGT3 ==
    << <<"s", "u", 10>>, <<"s", "x", 5>>,
       <<"u", "x", 2>>, <<"u", "v", 1>>,
       <<"x", "u", 3>>, <<"x", "y", 2>>, <<"x", "v", 9>>,
       <<"v", "y", 4>>,
       <<"y", "v", 6>>, <<"y", "s", 7>> >>

InitPaths ==
    /\ \/ /\ nodes \in PathNodeLists
          /\ edges \in DistinctSeqs(Pairs(ToSet(nodes)), MaxPathEdges)
          /\ costs \in [ToSet(edges) -> (-MaxWeight)..MaxWeight]
       \/ /\ nodes = <<"s", "u", "x", "v", "y">>
          /\ edges = KeysOf(Week1LGT3)
          /\ costs = ValuesOf(Week1LGT3)
    /\ source \in ToSet(nodes)
    /\ capacities = <<>>
    /\ supply = <<>>
    /\ sink = None
    /\ search_method = None
    /\ init_flow = None
    /\ ff = NoFrame
    /\ mcf = NoFrame
    /\ mf = NoFrame
    /\ lower_bounds = None
    /\ upper_bounds = None
    /\ pc = "call_bellman_ford"
    /\ run = 1
    /\ previous = <<>>
    /\ result = <<>>

\* lines 613 and 620: bellman_ford(nodes, edges, weights, source_node)[2]
CallBellmanFord ==
    /\ pc = "call_bellman_ford"
    /\ previous' = [source_node \in ToSet(nodes) |->
                       bellman_ford(nodes, edges, costs, source_node).distances]
    /\ pc' = "call_other"
    /\ UNCHANGED <<nodes, edges, capacities, costs, supply, lower_bounds, upper_bounds,
                   source, sink, search_method, mf,
                   init_flow, ff, mcf, run, result>>

\* line 613: bellman_ford_fifo(nodes, edges, weights, source)[2]
CallBellmanFordFifo ==
    /\ pc = "call_other"
    /\ result' = [algorithm |-> "bellman_ford_fifo",
                  raised |-> FALSE,
                  distances |-> bellman_ford_fifo(nodes, edges, costs, source).distances]
    /\ pc' = "done"
    /\ UNCHANGED <<nodes, edges, capacities, costs, supply, lower_bounds, upper_bounds,
                   source, sink, search_method, mf,
                   init_flow, ff, mcf, run, previous>>

\* line 614: dijkstra(nodes, edges, weights, source)[2]
CallDijkstra ==
    /\ pc = "call_other"
    /\ LET d == dijkstra(nodes, edges, costs, source)
       IN result' = [algorithm |-> "dijkstra",
                     raised |-> d.raised,
                     distances |-> d.distances]
    /\ pc' = "done"
    /\ UNCHANGED <<nodes, edges, capacities, costs, supply, lower_bounds, upper_bounds,
                   source, sink, search_method, mf,
                   init_flow, ff, mcf, run, previous>>

\* line 615: johnson(nodes, edges, weights)
CallJohnson ==
    /\ pc = "call_other"
    /\ LET j == johnson(nodes, edges, costs)
       IN result' = [algorithm |-> "johnson",
                     raised |-> j.raised,
                     distances |-> j.distances]
    /\ pc' = "done"
    /\ UNCHANGED <<nodes, edges, capacities, costs, supply, lower_bounds, upper_bounds,
                   source, sink, search_method, mf,
                   init_flow, ff, mcf, run, previous>>

NextPaths == CallBellmanFord \/ CallBellmanFordFifo \/ CallDijkstra \/ CallJohnson

SpecPaths == InitPaths /\ [][NextPaths]_vars

\* lines 617-619: the row of source_node in johnson's distances
distances_prime(ns, distances, source_node) ==
    [node \in ToSet(ns) |-> distances[<<source_node, node>>]]

\* C30: bellman_ford_fifo returns the distance map of bellman_ford (None for
\* both when a negative cycle is reachable from the source), dijkstra returns
\* it when no weight is negative, and when no cycle is negative johnson returns
\* distances whose row of each source is the distance map of bellman_ford from
\* that source.
C30_SameDistances ==
    (pc = "done") =>
        /\ result.algorithm = "bellman_ford_fifo" =>
              result.distances = previous[source]
        /\ (result.algorithm = "dijkstra" /\ \A e \in ToSet(edges) : costs[e] >= 0) =>
              /\ ~ result.raised
              /\ result.distances = previous[source]
        /\ (result.algorithm = "johnson" /\ NoNegativeCycle(nodes, edges, costs)) =>
              /\ ~ result.raised
              /\ result.distances # None
              /\ \A source_node \in ToSet(nodes) :
                    distances_prime(nodes, result.distances, source_node)
                        = previous[source_node]

\* johnson has returned the distances of a graph with a negative weight, one
\* of them negative
C30_Witness ==
    /\ pc = "done"
    /\ result.algorithm = "johnson"
    /\ NoNegativeCycle(nodes, edges, costs)
    /\ \E e \in ToSet(edges) : costs[e] < 0
    /\ result.distances # None
    /\ \E p \in DOMAIN result.distances : result.distances[p] < 0

====
